---- MODULE Spec2Model ----
(***************************************************************************)
(* A model of terraform-monitor-lambda: the drift-detection pipeline of    *)
(* index.ts.  One invocation of the handler runs main(): three concurrent  *)
(* acquisition branches (version -> binary, head -> snapshot, disk usage)  *)
(* joined by Promise.all, then INIT, PLAN, and the dispatch to the sinks.  *)
(* The scratch space (the artifact cache) persists between invocations;    *)
(* everything else is per invocation.  A handler of the program (a promise *)
(* callback together with the microtasks it triggers) is one action.       *)
(***************************************************************************)
EXTENDS Integers, Sequences, FiniteSets, TLC

\* ------------------------------------------------------------------ bounds

\* Invocations of the handler in one behaviour.
MaxRuns == 2

\* Versions the remote state descriptor can name, commits the branch can be at.
Versions == {"0.11.8", "0.11.10"}
Shas == {"b719dc5", "7b5cbf6"}

\* ------------------------------------------------------------ configuration

SCRATCH_SPACE == "/tmp"
GITHUB_REPO == "john-doe-terraform-infra"

\* ------------------------------------------------------------------- paths
\* A path is the sequence of the pieces the template string concatenates.

InstallFile(version) == <<"terraform_", version, "_linux_amd64">>
InstallZip(version) == <<SCRATCH_SPACE, "/">> \o InstallFile(version) \o <<".zip">>
InstallOut(version) == <<SCRATCH_SPACE, "/">> \o InstallFile(version)
InstallBin(version) == InstallOut(version) \o <<"/terraform">>

RepoZipPath == <<SCRATCH_SPACE, "/repo.zip">>
RepoOutPath == <<SCRATCH_SPACE, "/repo">>
ExpectedExtractedPathFixed(repoHead) == RepoOutPath \o <<"/", GITHUB_REPO, "-", "b719dc5">>
ExpectedExtractedPath(repoHead) == RepoOutPath \o <<"/", GITHUB_REPO, "-", repoHead>>

\* The folder a commit's archive unpacks to under RepoOutPath: named after the
\* commit by the hosting service, in the expected form or in another one.
ArchiveFolder(sha, expected) ==
  IF expected THEN RepoOutPath \o <<"/", GITHUB_REPO, "-", sha>>
  ELSE RepoOutPath \o <<"/", GITHUB_REPO, "-", sha, "-other">>

BinPaths == {InstallBin(v) : v \in Versions}
\* The cache keys: the paths the scratch space is tracked at.
RepoPaths == {RepoOutPath \o <<"/", GITHUB_REPO, "-", s>> : s \in Shas}


\* ------------------------------------------------------- process runners

\* Exit code reported for a process ended by a signal (null in the runtime).
NullCode == -1
ExitCodes == {0, 1, 2, 3, NullCode}

\* execShell: the calls its exec callback makes on the promise, in order.
execShellCalls(error, stderrLength, ignoreStderrOutput) ==
  (IF error THEN <<"reject">> ELSE <<>>)
    \o (IF stderrLength > 0 /\ ~ignoreStderrOutput THEN <<"reject">> ELSE <<>>)
    \o <<"resolve">>

\* A promise is settled by the first call made on it.
execShell(error, stderrLength, ignoreStderrOutput) ==
  Head(execShellCalls(error, stderrLength, ignoreStderrOutput))

\* A promise, and a call of its resolve or reject: the first call settles
\* it, a later call does nothing.
PendingPromise == [state |-> "pending", value |-> <<>>, settles |-> 0]

SettleOverwrites(promise, how, value) ==
  [state |-> how, value |-> value, settles |-> promise.settles + 1]
Settle(promise, how, value) ==
  IF promise.state = "pending"
  THEN [state |-> how, value |-> value, settles |-> promise.settles + 1]
  ELSE promise

\* exec calls back with an error when the command did not exit with 0.
ExecError(code) == code # 0

\* The promise of execShell after its exec callback ran: each call of the
\* callback applied in turn.
RECURSIVE SettleAll(_, _, _)
SettleAll(promise, calls, stdout) ==
  IF calls = <<>> THEN promise
  ELSE SettleAll(Settle(promise, IF Head(calls) = "reject" THEN "rejected" ELSE "resolved",
                        IF Head(calls) = "reject" THEN <<"Error">> ELSE <<stdout>>),
                 Tail(calls), stdout)

execShellPromise(code, stdout, stderrLength, ignoreStderrOutput) ==
  SettleAll(PendingPromise,
            execShellCalls(ExecError(code), stderrLength, ignoreStderrOutput), stdout)

\* execProcess: proc.on('exit', code => resolve({code, ...})), whatever the code.
ExitOutcomeStrict(code) == IF code = 0 THEN "resolved" ELSE "rejected"
ExitOutcome(code) == "resolved"

\* ------------------------------------------------ the two resolution steps
\* A response body is a text that JSON.parse rejects, or the document it
\* parses to: null, or an object with or without a commit object (itself with
\* or without a sha) and with or without a terraform_version.

NotJson == [parsable |-> FALSE, null |-> FALSE, commit |-> <<>>, terraform_version |-> <<>>]
JsonNull == [parsable |-> TRUE, null |-> TRUE, commit |-> <<>>, terraform_version |-> <<>>]
JsonObject(commit, terraform_version) ==
  [parsable |-> TRUE, null |-> FALSE, commit |-> commit,
   terraform_version |-> terraform_version]

\* What a template string makes of undefined.
Undefined == "undefined"

Rejected(err) == [state |-> "rejected", value |-> err]
Resolved(value) == [state |-> "resolved", value |-> value]

\* getRepoHead: the request fails, or the response ends with rawData.
\* JSON.parse throws into the catch; res.commit.sha throws a TypeError when
\* res is null or has no commit, and is undefined when commit has no sha.
getRepoHead(error, rawData) ==
  IF error THEN Rejected("request")
  ELSE IF ~rawData.parsable THEN Rejected("Could not parse response as JSON")
  ELSE IF rawData.null \/ rawData.commit = <<>> THEN Rejected("TypeError")
  ELSE Resolved(IF rawData.commit[1].sha = <<>> THEN Undefined
                ELSE rawData.commit[1].sha[1])

\* getTerraformVersion: getObject fails, or resolves with Body.
\* JSON.parse(...).terraform_version throws on a text that is no JSON and on
\* null, and is undefined for an object without the field.
getTerraformVersion(error, body) ==
  IF error THEN Rejected("getObject")
  ELSE IF ~body.parsable THEN Rejected("SyntaxError")
  ELSE IF body.null THEN Rejected("TypeError")
  ELSE Resolved(IF body.terraform_version = <<>> THEN Undefined
                ELSE body.terraform_version[1])

\* ----------------------------------------------------- INIT and PLAN phases

TerraformInitArgsLocking ==
  [command |-> "init", input |-> FALSE, lock |-> TRUE, color |-> FALSE,
   detailedExitcode |-> FALSE]
TerraformInitArgs ==
  [command |-> "init", input |-> FALSE, lock |-> FALSE, color |-> FALSE,
   detailedExitcode |-> FALSE]

TerraformPlanArgs ==
  [command |-> "plan", input |-> FALSE, lock |-> FALSE, color |-> FALSE,
   detailedExitcode |-> TRUE]

\* if (res.code) throw ...: a zero code and a null code are both falsy.
InitThrows(code) == code # 0 /\ code # NullCode

\* Where terraformInit is after the throw: its promise is rejected and the
\* chain goes on at main's catch, not back to the step.
InitThrownPcRetry == "checking"
InitThrownPc == "failed"

\* if (res.code === 1) throw ...
PlanThrows(code) == code = 1

\* The text of a line of stdout is a sequence of pieces, each a literal text
\* or a run of digits.
Text(t) == [kind |-> "text", text |-> t, digits |-> <<>>]
Digits(ds) == [kind |-> "digits", text |-> "", digits |-> ds]

IsText(piece, t) == piece.kind = "text" /\ piece.text = t
\* \d+
IsDigits(piece) == piece.kind = "digits" /\ Len(piece.digits) >= 1

\* The number of characters of a piece.
Width(piece) ==
  IF piece.kind = "digits" THEN Len(piece.digits)
  ELSE CASE piece.text = "" -> 0
         [] piece.text = " " -> 1
         [] piece.text = "." -> 1
         [] piece.text = ".." -> 2
         [] OTHER -> 3

\* parseInt(a, 10) of a run of digits.  Without the radix the runtime of the
\* day could read a run with a leading zero as octal.
RECURSIVE parseIntNoRadix(_, _)
parseIntNoRadix(ds, radix) ==
  LET r == IF Len(ds) > 1 /\ ds[1] = 0 THEN 8 ELSE radix
  IN IF ds = <<>> THEN 0
     ELSE IF Len(ds) = 1 THEN ds[1]
     ELSE r * parseIntNoRadix(<<ds[1]>> \o SubSeq(ds, 2, Len(ds) - 1), radix) + ds[Len(ds)]
RECURSIVE parseInt(_, _)
parseInt(ds, radix) ==
  IF ds = <<>> THEN 0
  ELSE radix * parseInt(SubSeq(ds, 1, Len(ds) - 1), radix) + ds[Len(ds)]

\* / Refreshing state.../ : the marker anywhere in the line, with three more
\* characters of any kind after it.
RECURSIVE WidthFrom(_, _)
WidthFrom(line, i) == IF i > Len(line) THEN 0 ELSE Width(line[i]) + WidthFrom(line, i + 1)

RefreshMatch(line) ==
  \E i \in 1..Len(line) :
    IsText(line[i], " Refreshing state") /\ WidthFrom(line, i + 1) >= 3

\* /^Plan: (\d+) to add, (\d+) to change, (\d+) to destroy./ : from the start
\* of the line, with one more character of any kind after "destroy"; the three
\* groups, or nothing.
PlanMatch(line) ==
  IF /\ Len(line) >= 7
     /\ IsText(line[1], "Plan: ") /\ IsDigits(line[2])
     /\ IsText(line[3], " to add, ") /\ IsDigits(line[4])
     /\ IsText(line[5], " to change, ") /\ IsDigits(line[6])
     /\ IsText(line[7], " to destroy")
     /\ WidthFrom(line, 8) >= 1
  THEN <<line[2].digits, line[4].digits, line[6].digits>>
  ELSE <<>>

\* A line of PLAN's stdout, by what the two patterns see of it: whether it
\* has the refresh marker, and the three numbers of a summary match if any.
RefreshLine == [refresh |-> TRUE, summary |-> <<>>]
OtherLine == [refresh |-> FALSE, summary |-> <<>>]
SummaryLine(a, b, c) == [refresh |-> FALSE, summary |-> <<a, b, c>>]

PlanStdouts ==
  { <<OtherLine>>,
    <<RefreshLine, SummaryLine(2, 0, 1)>>,
    <<SummaryLine(1, 0, 0), RefreshLine, RefreshLine, SummaryLine(0, 1, 0)>> }

ZeroCountsUnset ==
  [resourceCount |-> -1, pendingAdd |-> -1, pendingChange |-> -1, pendingDestroy |-> -1]
ZeroCounts ==
  [resourceCount |-> 0, pendingAdd |-> 0, pendingChange |-> 0, pendingDestroy |-> 0]

\* The body of the forEach over the lines of stdout: two ifs, not an if and
\* an else.
ParseLineEither(acc, line) ==
  IF line.summary # <<>>
  THEN [acc EXCEPT !.pendingAdd = line.summary[1],
                   !.pendingChange = line.summary[2],
                   !.pendingDestroy = line.summary[3]]
  ELSE IF line.refresh THEN [acc EXCEPT !.resourceCount = @ + 1] ELSE acc
ParseLine(acc, line) ==
  LET counted == IF line.refresh
                 THEN [acc EXCEPT !.resourceCount = @ + 1] ELSE acc
  IN IF line.summary # <<>>
     THEN [counted EXCEPT !.pendingAdd = line.summary[1],
                          !.pendingChange = line.summary[2],
                          !.pendingDestroy = line.summary[3]]
     ELSE counted

RECURSIVE ParseLines(_, _)
ParseLines(acc, lines) ==
  IF lines = <<>> THEN acc ELSE ParseLines(ParseLine(acc, Head(lines)), Tail(lines))

\* line.match(refresh), and line.match(plan) with parseInt of its groups.
MatchLine(line) ==
  LET groups == PlanMatch(line)
  IN [refresh |-> RefreshMatch(line),
      summary |-> IF groups = <<>> THEN <<>>
                  ELSE <<parseInt(groups[1], 10), parseInt(groups[2], 10),
                         parseInt(groups[3], 10)>>]

\* res.stdout.split('\n'), each line as the patterns see it.
MatchLines(lines) == [i \in 1..Len(lines) |-> MatchLine(lines[i])]

\* The record terraformPlan resolves with.
PlanMetrics(code, stdout) ==
  LET p == ParseLines(ZeroCounts, stdout)
  IN [terraformStatus |-> code,
      resourceCount |-> p.resourceCount,
      pendingAdd |-> p.pendingAdd,
      pendingChange |-> p.pendingChange,
      pendingDestroy |-> p.pendingDestroy,
      pendingTotal |-> p.pendingAdd + p.pendingChange + p.pendingDestroy]

\* The two then-handlers of terraformPlan over what execProcess resolved with.
TerraformPlanResult(code, lines) ==
  IF PlanThrows(code) THEN [thrown |-> TRUE, metrics |-> <<>>]
  ELSE [thrown |-> FALSE, metrics |-> PlanMetrics(code, MatchLines(lines))]

\* ------------------------------------------------------ the line protocol
\* A string is the sequence of its characters.  A value handed to the
\* escaping is a string, a number or a boolean.

StringValue(cs) == [type |-> "string", chars |-> cs, num |-> 0, bool |-> FALSE]
NumberValue(n) == [type |-> "number", chars |-> <<>>, num |-> n, bool |-> FALSE]
BooleanValue(b) == [type |-> "boolean", chars |-> <<>>, num |-> 0, bool |-> b]

DigitChar(d) == <<"0", "1", "2", "3", "4", "5", "6", "7", "8", "9">>[d + 1]

\* n + '' for an integer n.
RECURSIVE NumberChars(_)
NumberChars(n) ==
  IF n < 0 THEN <<"-">> \o NumberChars(-n)
  ELSE IF n < 10 THEN <<DigitChar(n)>>
  ELSE NumberChars(n \div 10) \o <<DigitChar(n % 10)>>

\* input + ''
ToChars(input) ==
  CASE input.type = "string" -> input.chars
    [] input.type = "number" -> NumberChars(input.num)
    [] input.type = "boolean" ->
         IF input.bool THEN <<"t", "r", "u", "e">> ELSE <<"f", "a", "l", "s", "e">>

\* s.replace(/ch/g, with), and what it would be without the g flag.
RECURSIVE ReplaceFirst(_, _, _)
ReplaceFirst(cs, ch, with) ==
  IF cs = <<>> THEN <<>>
  ELSE IF Head(cs) = ch THEN with \o Tail(cs)
  ELSE <<Head(cs)>> \o ReplaceFirst(Tail(cs), ch, with)
RECURSIVE ReplaceAll(_, _, _)
ReplaceAll(cs, ch, with) ==
  IF cs = <<>> THEN <<>>
  ELSE (IF Head(cs) = ch THEN with ELSE <<Head(cs)>>) \o ReplaceAll(Tail(cs), ch, with)

Contexts == {"MEASUREMENT", "TAG_KEY", "TAG_VALUE", "FIELD_KEY", "FIELD_VALUE"}

influxEscape(input, context) ==
  CASE context = "MEASUREMENT" ->
         ReplaceAll(ReplaceAll(ToChars(input), ",", <<"\\", ",">>), " ", <<"\\", " ">>)
    [] context \in {"TAG_KEY", "TAG_VALUE", "FIELD_KEY"} ->
         ReplaceAll(ReplaceAll(ReplaceAll(ToChars(input), ",", <<"\\", ",">>),
                               "=", <<"\\", "=">>),
                    " ", <<"\\", " ">>)
    [] context = "FIELD_VALUE" ->
         IF input.type \in {"number", "boolean"} THEN ToChars(input)
         ELSE <<"\"">> \o ReplaceAll(input.chars, "\"", <<"\\", "\"">>) \o <<"\"">>

\* parts.join(sep)
RECURSIVE Join(_, _)
Join(parts, sep) ==
  IF parts = <<>> THEN <<>>
  ELSE IF Len(parts) = 1 THEN parts[1]
  ELSE parts[1] \o sep \o Join(Tail(parts), sep)

\* The two asserts of influxLine: the empty string and a length of 0 are falsy.
LinePreconditionsSkipped(measurement, fields) == TRUE
LinePreconditions(measurement, fields) == measurement # <<>> /\ Len(fields) # 0

\* influxSend's test of the response: res.statusCode (0 for none) truthy and
\* in 200..299.
StatusOkLoose(statusCode) == statusCode < 300
StatusOk(statusCode) == statusCode # 0 /\ statusCode >= 200 /\ statusCode < 300

\* influxLine: tags and fields are the entries of the objects in key order;
\* a timestamp of 0 stands for none given (0 is as falsy as undefined).  The
\* two asserts throw.
influxLine(measurement, tags, fields, timestampInMs) ==
  IF ~LinePreconditions(measurement, fields) THEN [thrown |-> TRUE, line |-> <<>>]
  ELSE
    LET tagString ==
          Join([i \in 1..Len(tags) |->
                  influxEscape(StringValue(tags[i].key), "TAG_KEY") \o <<"=">>
                    \o influxEscape(StringValue(tags[i].value), "TAG_VALUE")], <<",">>)
        tagSeparator == IF Len(tags) # 0 THEN <<",">> ELSE <<>>
        fieldString ==
          Join([i \in 1..Len(fields) |->
                  influxEscape(StringValue(fields[i].key), "FIELD_KEY") \o <<"=">>
                    \o influxEscape(fields[i].value, "FIELD_VALUE")], <<",">>)
        timeString == IF timestampInMs # 0
                      THEN <<" ">> \o NumberChars(timestampInMs * 1000000) ELSE <<>>
    IN [thrown |-> FALSE,
        line |-> influxEscape(StringValue(measurement), "MEASUREMENT") \o tagSeparator
                   \o tagString \o <<" ">> \o fieldString \o timeString]

\* ------------------------------------------------------- main and handler

NoError == "none"

\* main()'s promise, given how the chain before its catch ended (NoError, or
\* the rejection): .catch(err => log('ERROR', err)).then(() => null)
MainResultRethrow(err) ==
  IF err = NoError THEN [state |-> "resolved", value |-> "null", logged |-> NoError]
  ELSE [state |-> "rejected", value |-> err, logged |-> err]
MainResult(err) == [state |-> "resolved", value |-> "null", logged |-> err]

\* main().then(callback, callback): the argument the callback is given.
HandlerCallbackArg(res) == res.value


\* Promise.all over the three acquisition branches: its state after one of
\* them changed.  It rejects with the first rejection and fulfils once all
\* three have fulfilled; once settled it stays as it is.
PromiseAllAny(state, statuses) ==
  IF state # "pending" THEN state
  ELSE IF "rejected" \in statuses THEN "rejected"
  ELSE IF "fulfilled" \in statuses THEN "fulfilled"
  ELSE "pending"
PromiseAllWaitsForAll(state, statuses) ==
  IF state # "pending" THEN state
  ELSE IF "pending" \in statuses THEN "pending"
  ELSE IF "rejected" \in statuses THEN "rejected"
  ELSE "fulfilled"
PromiseAll(state, statuses) ==
  IF state # "pending" THEN state
  ELSE IF "rejected" \in statuses THEN "rejected"
  ELSE IF statuses = {"fulfilled"} THEN "fulfilled"
  ELSE "pending"

\* ------------------------------------------------------------------- state

VARIABLES
  \* the scratch space, which outlives an invocation
  binFs,        \* [BinPaths -> "absent" | "partial" | "full"]: the binary file
  repoFs,       \* [RepoPaths -> [state, content]]: a snapshot folder, and whose files it got
  tfMarker,     \* [RepoPaths -> "absent" | "partial" | "complete"]: <path>/.terraform
  \* the lock on the shared remote state, and the subprocesses this
  \* invocation started
  lockHeld, spawned,
  stepCalls,    \* [step -> how often this invocation called or spawned it]
  \* the environment of the function
  runs,         \* invocations so far
  config,       \* [cloudwatch, influxdb]: whether each sink is configured
  \* the invocation
  mainRes,      \* main()'s promise
  cbArgs,       \* the arguments the handler's callback was called with
  binPc, version, terraformBin,
  binZip,       \* the zip installTerraform wrote: "none" | "truncated" | "archive"
  repoPc, head, repoPath,
  repoZip,      \* the zip fetchRepo wrote: "none" | "truncated" | "archive"
  repoFolder,   \* the folder unzip writes the snapshot to
  duPc,
  allState,     \* the Promise.all of the three branches
  initPc, planPc,
  initExit,     \* <<code>> once INIT has exited
  planExit,     \* <<code>> once PLAN has exited
  metrics,      \* the record handed to shipMetrics
  shipPc, consoleOut, cwPc, influxPc,
  \* history, for the properties
  firstFailure, \* the error of the branch that failed first in this invocation
  hits,         \* this invocation's cache hits: what was asked for, what the path held
  installed,    \* the versions installTerraform has resolved for
  reinstalled,  \* those it downloaded again after that
  fetched,      \* the commits fetchRepo has resolved for
  refetched,    \* those it requested again after that
  \* two calls of installTerraform in flight in one process
  ovPc,         \* [Calls -> where the call is]
  ovVersion,    \* [Calls -> the version it was called with]
  ovZip,        \* [Versions -> the zip file at InstallZip(version)]
  binWrites,    \* [BinPaths -> how many extractions wrote the path]
  \* terraformPlan on its own
  planRes,      \* [code, stdout]: what execProcess resolved with
  planOut,      \* <<>>, then what terraformPlan made of it
  \* the line-protocol functions on their own
  escCall,      \* the call: influxEscape or influxLine with its arguments
  escOut,       \* <<>>, then what the call returned
  \* the two process runners on their own
  runCall,      \* the call: execShell or execProcess, and what the process does
  runPromise,   \* the promise the call returned
  runSeen,      \* the events of the child process delivered so far
  runData,      \* [stdout, stderr]: the chunks the data listeners have added
  runResult,    \* <<>>, then the object execProcess resolved with
  \* the two resolution steps on their own
  headResp,     \* what the request of getRepoHead comes back with
  headOut,      \* <<>>, then the promise of getRepoHead
  headPath,     \* <<>>, then the path fetchRepo built from the head
  descResp,     \* what getObject comes back with
  versionOut,   \* <<>>, then the promise of getTerraformVersion
  versionBin,   \* <<>>, then the path installTerraform built from the version
  \* the line-protocol sink on its own
  sinkCall,     \* the configured measurement and the metrics handed to the sink
  sinkSent,     \* the bodies written to the request
  sinkSeen,     \* the events of the request so far, in order
  sendPromise,  \* <<>>, then the promise of influxSend
  sinkOut,      \* the promise of shipMetricsToInfluxDb
  clock,        \* what Date.now() returns
  timePc,       \* where the timed invocation is
  mainThen,     \* <<>>, then the value of main's local then
  planThen,     \* <<>>, then the value of terraformPlan's local then
  refreshTime,  \* <<>>, then the refreshTime of the metrics
  totalTime     \* <<>>, then the totalTime of the metrics

\* A zip file is created anew by the call that reads it, so the zip an earlier
\* invocation left behind is not part of the state.
diskVars == <<binFs, repoFs, tfMarker>>
lockVars == <<lockHeld, spawned, stepCalls>>
overlapVars == <<ovPc, ovVersion, ovZip, binWrites>>
parserVars == <<planRes, planOut>>
escapeVars == <<escCall, escOut>>
runnerVars == <<runCall, runPromise, runSeen, runData, runResult>>
resolveVars == <<headResp, headOut, headPath, descResp, versionOut, versionBin>>
sinkVars == <<sinkCall, sinkSent, sinkSeen, sendPromise, sinkOut>>
timingVars == <<clock, timePc, mainThen, planThen, refreshTime, totalTime>>
auxVars == <<overlapVars, parserVars, escapeVars, runnerVars, resolveVars, sinkVars, timingVars>>
envVars == <<runs, config, auxVars>>
binVars == <<binPc, version, terraformBin, binZip>>
repoVars == <<repoPc, head, repoPath, repoZip, repoFolder>>
joinVars == <<allState, mainRes, cbArgs, initPc, firstFailure>>
planVars == <<planPc, initExit, planExit, metrics>>
shipVars == <<shipPc, consoleOut, cwPc, influxPc>>
binHist == <<installed, reinstalled>>
repoHist == <<fetched, refetched>>

vars == <<diskVars, lockVars, envVars, binVars, repoVars, duPc, joinVars,
          planVars, shipVars, binHist, repoHist, hits>>

None == "none"

\* The steps main calls once each: installTerraform, fetchRepo, and the two
\* subprocesses (by the command they are spawned with).
Steps == {"install", "fetch", "init", "plan"}
NoCalls == [step \in Steps |-> 0]
Called(step) == [stepCalls EXCEPT ![step] = @ + 1]

StderrLengths == {0, 12}

\* The calls of installTerraform that can be in flight together: the one of an
\* invocation that ended on the failure of another branch, and the one of the
\* invocation after it.
Calls == {1, 2}

OverlapIdle ==
  /\ ovPc = [c \in Calls |-> "idle"]
  /\ ovVersion = [c \in Calls |-> None]
  /\ ovZip = [v \in Versions |-> "none"]
  /\ binWrites = [p \in BinPaths |-> 0]

ParserIdle == planRes = <<>> /\ planOut = <<>>

EscapeIdle == escCall = <<>> /\ escOut = <<>>

RunnerIdle ==
  /\ runCall = <<>> /\ runPromise = <<>> /\ runSeen = {}
  /\ runData = <<>> /\ runResult = <<>>

ResolveIdle ==
  /\ headResp = <<>> /\ headOut = <<>> /\ headPath = <<>>
  /\ descResp = <<>> /\ versionOut = <<>> /\ versionBin = <<>>

SinkIdle ==
  /\ sinkCall = <<>> /\ sinkSent = <<>> /\ sinkSeen = <<>>
  /\ sendPromise = <<>> /\ sinkOut = "idle"

TimingIdle ==
  /\ clock = 0 /\ timePc = "idle"
  /\ mainThen = <<>> /\ planThen = <<>> /\ refreshTime = <<>> /\ totalTime = <<>>

AuxIdle ==
  /\ OverlapIdle /\ ParserIdle /\ EscapeIdle /\ RunnerIdle /\ ResolveIdle
  /\ SinkIdle /\ TimingIdle

PipelineInit ==
  /\ binFs = [p \in BinPaths |-> "absent"]
  /\ repoFs = [p \in RepoPaths |-> [state |-> "absent", content |-> {}]]
  /\ tfMarker = [p \in RepoPaths |-> "absent"]
  /\ lockHeld = FALSE /\ spawned = {} /\ stepCalls = NoCalls
  /\ runs = 0
  /\ config \in [cloudwatch : BOOLEAN, influxdb : BOOLEAN]
  /\ mainRes = [state |-> "idle", value |-> None, logged |-> NoError]
  /\ cbArgs = <<>>
  /\ binPc = "idle" /\ version = None /\ terraformBin = <<>> /\ binZip = "none"
  /\ repoPc = "idle" /\ head = None /\ repoPath = <<>>
  /\ repoZip = "none" /\ repoFolder = <<>>
  /\ duPc = "idle"
  /\ allState = "idle"
  /\ initPc = "idle" /\ planPc = "idle" /\ initExit = <<>> /\ planExit = <<>>
  /\ metrics = <<>>
  /\ shipPc = "idle" /\ consoleOut = 0 /\ cwPc = "idle" /\ influxPc = "idle"
  /\ firstFailure = NoError /\ hits = {}
  /\ installed = {} /\ reinstalled = {}
  /\ fetched = {} /\ refetched = {}

Init == PipelineInit /\ AuxIdle

\* ---------------------------------------------------------------- the join

\* How a branch's promise stands, from where the branch is.
BranchStatus(pc) ==
  IF pc = "done" THEN "fulfilled" ELSE IF pc = "failed" THEN "rejected" ELSE "pending"

\* The chain of main() ends (with NoError, or with the rejection err): main's
\* promise settles and the handler passes it to the callback.
Finish(err) ==
  LET res == MainResult(err)
  IN /\ mainRes' = res
     /\ cbArgs' = Append(cbArgs, HandlerCallbackArg(res))

\* A branch moved to b, r or d (the other two being where they were) and its
\* promise settled, with err if it rejected.  A rejection of Promise.all runs
\* main's catch; its fulfilment calls terraformInit, which starts by checking
\* for the marker.
BranchSettled(b, r, d, err) ==
  LET now == PromiseAll(allState, {BranchStatus(b), BranchStatus(r), BranchStatus(d)})
  IN /\ allState' = now
     /\ firstFailure' = IF firstFailure = NoError THEN err ELSE firstFailure
     /\ IF allState = "pending" /\ now = "rejected"
        THEN Finish(err) /\ initPc' = initPc
        ELSE IF allState = "pending" /\ now = "fulfilled"
        THEN initPc' = "checking" /\ UNCHANGED <<mainRes, cbArgs>>
        ELSE UNCHANGED <<mainRes, cbArgs, initPc>>

\* Nothing of an invocation is in flight.
Quiet(pc) == pc \in {"idle", "off", "done", "skipped", "failed", "stuck", "ok", "killed"}
Quiescent ==
  /\ mainRes.state # "pending"
  /\ \A pc \in {binPc, repoPc, duPc, initPc, planPc, cwPc, influxPc} : Quiet(pc)

\* lambda.handler: the scheduler invokes the function, which calls main().
Invoke ==
  /\ runs < MaxRuns
  /\ Quiescent
  /\ runs' = runs + 1
  /\ mainRes' = [state |-> "pending", value |-> None, logged |-> NoError]
  /\ cbArgs' = <<>>
  /\ binPc' = "version" /\ version' = None /\ terraformBin' = <<>> /\ binZip' = "none"
  /\ repoPc' = "head" /\ head' = None /\ repoPath' = <<>>
  /\ repoZip' = "none" /\ repoFolder' = <<>>
  /\ duPc' = "running"
  /\ allState' = "pending"
  /\ initPc' = "idle" /\ planPc' = "idle" /\ initExit' = <<>> /\ planExit' = <<>>
  /\ metrics' = <<>>
  /\ shipPc' = "idle" /\ consoleOut' = 0 /\ cwPc' = "idle" /\ influxPc' = "idle"
  /\ firstFailure' = NoError /\ hits' = {} /\ spawned' = {} /\ stepCalls' = NoCalls
  /\ UNCHANGED <<diskVars, lockHeld, config, auxVars, binHist, repoHist>>


\* --------------------------------- branch 1: version -> installTerraform

\* getTerraformVersion resolves: the descriptor names version v, and
\* installTerraform is called with it.
VersionResolved(v) ==
  /\ binPc = "version"
  /\ binPc' = "access" /\ version' = v
  /\ stepCalls' = Called("install")
  /\ UNCHANGED <<terraformBin, binZip, diskVars, lockHeld, spawned, envVars, repoVars, duPc,
                 joinVars, planVars, shipVars, binHist, repoHist, hits>>

\* getTerraformVersion rejects: the fetch failed or the body is not JSON.
VersionFailed ==
  /\ binPc = "version"
  /\ binPc' = "failed"
  /\ BranchSettled("failed", repoPc, duPc, "bin")
  /\ UNCHANGED <<version, terraformBin, binZip, diskVars, lockVars, envVars, repoVars,
                 duPc, planVars, shipVars, binHist, repoHist, hits>>

\* Whether installTerraform takes the binary at bin from the cache.
BinCachedNever(bin) == FALSE
BinCached(bin) == binFs[bin] # "absent"

\* installTerraform, the callback of access(bin): a cache hit resolves with
\* bin; a miss creates the zip file and sends the request.
InstallAccess ==
  LET bin == InstallBin(version)
  IN /\ binPc = "access"
     /\ IF BinCached(bin)
        THEN /\ binPc' = "done"
             /\ terraformBin' = bin
             /\ BranchSettled("done", repoPc, duPc, NoError)
             /\ hits' = hits \cup {[kind |-> "bin", key |-> version, state |-> binFs[bin],
                                    content |-> {version},
                                    again |-> version \in installed]}
             /\ installed' = installed \cup {version}
             /\ UNCHANGED <<binZip, reinstalled>>
        ELSE /\ binPc' = "download"
             /\ binZip' = "truncated"
             /\ reinstalled' = IF version \in installed
                               THEN reinstalled \cup {version} ELSE reinstalled
             /\ UNCHANGED <<terraformBin, joinVars, hits, installed>>
     /\ UNCHANGED <<version, diskVars, lockVars, envVars, repoVars, duPc, planVars,
                    shipVars, repoHist>>

\* request.on('error', reject), before or after the response has begun.
InstallRequestError ==
  /\ binPc = "download"
  /\ binPc' = "failed"
  /\ BranchSettled("failed", repoPc, duPc, "bin")
  /\ UNCHANGED <<version, terraformBin, binZip, diskVars, lockVars, envVars, repoVars,
                 duPc, planVars, shipVars, binHist, repoHist, hits>>

\* get(url, response => response.pipe(file)): the response arrives and ends,
\* with the whole archive or (a response that is no archive, or is cut short)
\* without; the pipe ends the file and file.on('close', resolve) starts unzip.
InstallFileClosed(complete) ==
  /\ binPc = "download"
  /\ binPc' = "unzip"
  /\ binZip' = IF complete THEN "archive" ELSE "truncated"
  /\ UNCHANGED <<version, terraformBin, diskVars, lockVars, envVars, repoVars, duPc,
                 joinVars, planVars, shipVars, binHist, repoHist, hits>>

\* The response stream aborts, or the file stream fails, without the file
\* being closed: neither event has a listener that settles the promise.
InstallStreamBroken ==
  /\ binPc = "download"
  /\ binPc' = "stuck"
  /\ UNCHANGED <<version, terraformBin, binZip, diskVars, lockVars, envVars, repoVars,
                 duPc, joinVars, planVars, shipVars, binHist, repoHist, hits>>

\* unzip ends before it wrote anything (always so when the zip is no archive).
InstallUnzipRefused ==
  /\ binPc = "unzip"
  /\ execShell(TRUE, 0, FALSE) = "reject"
  /\ binPc' = "failed"
  /\ BranchSettled("failed", repoPc, duPc, "bin")
  /\ UNCHANGED <<version, terraformBin, binZip, diskVars, lockVars, envVars, repoVars,
                 duPc, planVars, shipVars, binHist, repoHist, hits>>

\* unzip -o zip -d out starts to write the binary.
InstallExtractBegin ==
  /\ binPc = "unzip"
  /\ binZip = "archive"
  /\ binPc' = "extracting"
  /\ binFs' = [binFs EXCEPT ![InstallBin(version)] = IF @ = "full" THEN @ ELSE "partial"]
  /\ UNCHANGED <<version, terraformBin, binZip, repoFs, tfMarker, lockVars, envVars,
                 repoVars, duPc, joinVars, planVars, shipVars, binHist, repoHist,
                 hits>>

\* unzip exits, having written the binary unless it failed; execShell's
\* callback settles the promise, and on success installTerraform resolves.
InstallUnzipExit(error, stderrLength) ==
  LET bin == InstallBin(version)
      ok == execShell(error, stderrLength, FALSE) = "resolve"
  IN /\ binPc = "extracting"
     /\ binFs' = [binFs EXCEPT ![bin] = IF error THEN @ ELSE "full"]
     /\ binPc' = IF ok THEN "done" ELSE "failed"
     /\ BranchSettled(IF ok THEN "done" ELSE "failed", repoPc, duPc,
                      IF ok THEN NoError ELSE "bin")
     /\ terraformBin' = IF ok THEN bin ELSE terraformBin
     /\ installed' = IF ok THEN installed \cup {version} ELSE installed
     /\ UNCHANGED <<version, binZip, repoFs, tfMarker, lockVars, envVars, repoVars,
                    duPc, planVars, shipVars, reinstalled, repoHist, hits>>

BinNext ==
  \/ \E v \in Versions : VersionResolved(v)
  \/ VersionFailed
  \/ InstallAccess
  \/ InstallRequestError
  \/ \E complete \in BOOLEAN : InstallFileClosed(complete)
  \/ InstallStreamBroken
  \/ InstallUnzipRefused
  \/ InstallExtractBegin
  \/ \E error \in BOOLEAN, n \in StderrLengths : InstallUnzipExit(error, n)


\* ------------------------------------------ branch 2: head -> fetchRepo

\* getRepoHead resolves: the branch is at commit s, and fetchRepo is called
\* with it.
HeadResolved(s) ==
  /\ repoPc = "head"
  /\ repoPc' = "access" /\ head' = s
  /\ stepCalls' = Called("fetch")
  /\ UNCHANGED <<repoPath, repoZip, repoFolder, diskVars, lockHeld, spawned, envVars, binVars, duPc,
                 joinVars, planVars, shipVars, binHist, repoHist, hits>>

\* getRepoHead rejects: the request failed, or the response is not JSON or
\* has no commit object.
HeadFailed ==
  /\ repoPc = "head"
  /\ repoPc' = "failed"
  /\ BranchSettled(binPc, "failed", duPc, "repo")
  /\ UNCHANGED <<head, repoPath, repoZip, repoFolder, diskVars, lockVars, envVars, binVars,
                 duPc, planVars, shipVars, binHist, repoHist, hits>>

\* checkPathExists: access(path) reports no error.
checkPathExistsUnchecked(path) == TRUE
checkPathExists(path) == path \in RepoPaths /\ repoFs[path].state # "absent"

\* fetchRepo, the first checkPathExists: a cache hit resolves with the
\* expected path; a miss sends the request for the archive's location.
FetchAccess ==
  LET path == ExpectedExtractedPath(head)
  IN /\ repoPc = "access"
     /\ IF checkPathExists(path)
        THEN /\ repoPc' = "done"
             /\ repoPath' = path
             /\ BranchSettled(binPc, "done", duPc, NoError)
             /\ hits' = hits \cup {[kind |-> "repo", key |-> head,
                                    state |-> repoFs[path].state,
                                    content |-> repoFs[path].content,
                                    again |-> head \in fetched]}
             /\ fetched' = fetched \cup {head}
             /\ UNCHANGED refetched
        ELSE /\ repoPc' = "redirect"
             /\ refetched' = IF head \in fetched THEN refetched \cup {head} ELSE refetched
             /\ UNCHANGED <<repoPath, joinVars, hits, fetched>>
     /\ UNCHANGED <<head, repoZip, repoFolder, diskVars, lockVars, envVars, binVars, duPc,
                    planVars, shipVars, binHist>>

\* The first response: without a location header fetchRepo rejects; with
\* one it creates the zip file and requests the archive.
FetchRedirect(hasLocation) ==
  /\ repoPc = "redirect"
  /\ IF hasLocation
     THEN /\ repoPc' = "download"
          /\ repoZip' = "truncated"
          /\ UNCHANGED joinVars
     ELSE /\ repoPc' = "failed"
          /\ BranchSettled(binPc, "failed", duPc, "repo")
          /\ UNCHANGED repoZip
  /\ UNCHANGED <<head, repoPath, repoFolder, diskVars, lockVars, envVars, binVars,
                 duPc, planVars, shipVars, binHist, repoHist, hits>>

\* .on('error', reject) of either request.
FetchRequestError ==
  /\ repoPc \in {"redirect", "download"}
  /\ repoPc' = "failed"
  /\ BranchSettled(binPc, "failed", duPc, "repo")
  /\ UNCHANGED <<head, repoPath, repoZip, repoFolder, diskVars, lockVars, envVars, binVars,
                 duPc, planVars, shipVars, binHist, repoHist, hits>>

\* res => res.pipe(file): the response arrives and ends, with the whole
\* archive or without; the pipe ends the file and file.on('close', resolve)
\* starts unzip.
FetchFileClosed(complete) ==
  /\ repoPc = "download"
  /\ repoPc' = "unzip"
  /\ repoZip' = IF complete THEN "archive" ELSE "truncated"
  /\ UNCHANGED <<head, repoPath, repoFolder, diskVars, lockVars, envVars, binVars,
                 duPc, joinVars, planVars, shipVars, binHist, repoHist, hits>>

\* The response stream aborts, or the file stream fails, without the file
\* being closed: nothing settles the promise.
FetchStreamBroken ==
  /\ repoPc = "download"
  /\ repoPc' = "stuck"
  /\ UNCHANGED <<head, repoPath, repoZip, repoFolder, diskVars, lockVars, envVars, binVars,
                 duPc, joinVars, planVars, shipVars, binHist, repoHist, hits>>

\* unzip ends before it wrote anything (always so when the zip is no archive).
FetchUnzipRefused ==
  /\ repoPc = "unzip"
  /\ execShell(TRUE, 0, FALSE) = "reject"
  /\ repoPc' = "failed"
  /\ BranchSettled(binPc, "failed", duPc, "repo")
  /\ UNCHANGED <<head, repoPath, repoZip, repoFolder, diskVars, lockVars, envVars, binVars,
                 duPc, planVars, shipVars, binHist, repoHist, hits>>

\* unzip -o zipPath -d outPath starts to write the archive's folder.
FetchExtractBegin(expected) ==
  LET folder == ArchiveFolder(head, expected)
  IN /\ repoPc = "unzip"
     /\ repoZip = "archive"
     /\ repoPc' = "extracting"
     /\ repoFolder' = folder
     /\ repoFs' = IF folder \in RepoPaths
                   THEN [repoFs EXCEPT ![folder] =
                           [state |-> IF @.state = "full" THEN "full" ELSE "partial",
                            content |-> @.content \cup {head}]]
                   ELSE repoFs
     /\ UNCHANGED <<head, repoPath, repoZip, binFs, tfMarker, lockVars, envVars,
                    binVars, duPc, joinVars, planVars, shipVars, binHist, repoHist,
                    hits>>

\* unzip exits, having written the folder unless it failed; execShell's
\* callback settles the promise.
FetchUnzipExit(error, stderrLength) ==
  LET ok == execShell(error, stderrLength, FALSE) = "resolve"
  IN /\ repoPc = "extracting"
     /\ repoFs' = IF repoFolder \in RepoPaths /\ ~error
                   THEN [repoFs EXCEPT ![repoFolder].state = "full"]
                   ELSE repoFs
     /\ IF ok
        THEN repoPc' = "verify" /\ UNCHANGED joinVars
        ELSE /\ repoPc' = "failed"
             /\ BranchSettled(binPc, "failed", duPc, "repo")
     /\ UNCHANGED <<head, repoPath, repoZip, repoFolder, binFs, tfMarker, lockVars,
                    envVars, binVars, duPc, planVars, shipVars, binHist, repoHist,
                    hits>>

\* fetchRepo, the second checkPathExists: it resolves with the expected
\* path if the path is there now.
FetchVerify ==
  LET path == ExpectedExtractedPath(head)
      ok == checkPathExists(path)
  IN /\ repoPc = "verify"
     /\ repoPc' = IF ok THEN "done" ELSE "failed"
     /\ BranchSettled(binPc, IF ok THEN "done" ELSE "failed", duPc,
                      IF ok THEN NoError ELSE "repo")
     /\ repoPath' = IF ok THEN path ELSE repoPath
     /\ fetched' = IF ok THEN fetched \cup {head} ELSE fetched
     /\ UNCHANGED <<head, repoZip, repoFolder, diskVars, lockVars, envVars, binVars, duPc,
                    planVars, shipVars, binHist, refetched, hits>>

RepoNext ==
  \/ \E s \in Shas : HeadResolved(s)
  \/ HeadFailed
  \/ FetchAccess
  \/ \E hasLocation \in BOOLEAN : FetchRedirect(hasLocation)
  \/ FetchRequestError
  \/ \E complete \in BOOLEAN : FetchFileClosed(complete)
  \/ FetchStreamBroken
  \/ FetchUnzipRefused
  \/ \E expected \in BOOLEAN : FetchExtractBegin(expected)
  \/ \E error \in BOOLEAN, n \in StderrLengths : FetchUnzipExit(error, n)
  \/ FetchVerify

\* ------------------------------------------ branch 3: getScratchSpaceUsage

\* du exits; execShell's callback settles, and the byte count is parsed.
ScratchSpaceUsage(error, stderrLength, parsable) ==
  LET ok == execShell(error, stderrLength, FALSE) = "resolve" /\ parsable
  IN /\ duPc = "running"
     /\ duPc' = IF ok THEN "done" ELSE "failed"
     /\ BranchSettled(binPc, repoPc, IF ok THEN "done" ELSE "failed",
                      IF ok THEN NoError ELSE "du")
     /\ UNCHANGED <<diskVars, lockVars, envVars, binVars, repoVars, planVars,
                    shipVars, binHist, repoHist, hits>>

DuNext ==
  \E error \in BOOLEAN, n \in StderrLengths, parsable \in BOOLEAN :
    ScratchSpaceUsage(error, n, parsable)


\* ------------------------------------------------------- INIT and PLAN

\* execProcess spawns the tool.  Run with locking enabled, the tool takes
\* the lock on the remote state for as long as it runs.
Spawn(args) ==
  /\ spawned' = spawned \cup {args}
  /\ stepCalls' = Called(args.command)
  /\ lockHeld' = (lockHeld \/ args.lock)

\* The tool exits with code.  Unless a signal ended it (no code), it has
\* released the lock it may have taken.
StillHeld(code) == code = NullCode /\ lockHeld

Exited(code) ==
  /\ lockHeld' = StillHeld(code)
  /\ UNCHANGED <<spawned, stepCalls>>

\* checkPathExists(repoPath/.terraform): access reports no error.
MarkerExists(path) == path \in RepoPaths /\ tfMarker[path] # "absent"

\* The .terraform folder of the snapshot at path becomes as given.
MarkerSet(path, to) ==
  IF path \in RepoPaths THEN [tfMarker EXCEPT ![path] = to] ELSE tfMarker

\* terraformPlan is called: it spawns PLAN.
PlanStarts ==
  /\ planPc' = "running"
  /\ Spawn(TerraformPlanArgs)

\* terraformInit, the callback of checkPathExists(repoPath/.terraform): with
\* the marker there INIT is skipped and terraformPlan is called; without it
\* INIT is spawned.
InitCheck ==
  /\ initPc = "checking"
  /\ IF MarkerExists(repoPath)
     THEN initPc' = "skipped" /\ PlanStarts
     ELSE initPc' = "running" /\ Spawn(TerraformInitArgs) /\ UNCHANGED planPc
  /\ UNCHANGED <<diskVars, envVars, binVars, repoVars, duPc, allState, mainRes,
                 cbArgs, firstFailure, initExit, planExit, metrics, shipVars,
                 binHist, repoHist, hits>>

\* proc.on('error', reject): INIT could not be launched.
InitSpawnError ==
  /\ initPc = "running"
  /\ initPc' = "failed"
  /\ Finish("init:spawn")
  /\ UNCHANGED <<diskVars, lockVars, envVars, binVars, repoVars, duPc, allState,
                 firstFailure, planVars, shipVars, binHist, repoHist, hits>>

\* INIT creates the .terraform folder in the snapshot.
InitCreatesMarker ==
  /\ initPc = "running"
  /\ initPc' = "marking"
  /\ tfMarker' = MarkerSet(repoPath, "partial")
  /\ UNCHANGED <<binFs, repoFs, lockVars, envVars, binVars, repoVars, duPc,
                 allState, mainRes, cbArgs, firstFailure, planVars, shipVars,
                 binHist, repoHist, hits>>

\* proc.on('exit', ...): INIT exits with code; it exits with 0 only after it
\* completed the folder.  A truthy code throws; otherwise terraformPlan is
\* called.
InitExit(code) ==
  /\ initPc \in {"running", "marking"}
  /\ code = 0 => initPc = "marking"
  /\ tfMarker' = IF code = 0 THEN MarkerSet(repoPath, "complete") ELSE tfMarker
  /\ initExit' = <<code>>
  /\ IF InitThrows(code)
     THEN /\ initPc' = InitThrownPc
          /\ Finish("init:exit")
          /\ Exited(code)
          /\ UNCHANGED planPc
     ELSE /\ initPc' = "done"
          /\ planPc' = "running"
          /\ spawned' = spawned \cup {TerraformPlanArgs}
          /\ stepCalls' = Called(TerraformPlanArgs.command)
          /\ lockHeld' = (StillHeld(code) \/ TerraformPlanArgs.lock)
          /\ UNCHANGED <<mainRes, cbArgs>>
  /\ UNCHANGED <<binFs, repoFs, envVars, binVars, repoVars, duPc, allState,
                 firstFailure, planExit, metrics, shipVars, binHist, repoHist, hits>>

\* proc.on('error', reject): PLAN could not be launched.
PlanSpawnError ==
  /\ planPc = "running"
  /\ planPc' = "failed"
  /\ Finish("plan:spawn")
  /\ UNCHANGED <<diskVars, lockVars, envVars, binVars, repoVars, duPc, allState,
                 initPc, firstFailure, initExit, planExit, metrics, shipVars,
                 binHist, repoHist, hits>>

\* How a sink's promise stands.
SinkStatusLenient(pc) ==
  IF pc = "inflight" THEN "pending" ELSE "fulfilled"
SinkStatus(pc) ==
  IF pc = "inflight" THEN "pending" ELSE IF pc = "failed" THEN "rejected" ELSE "fulfilled"

\* shipMetrics: the console report is made at once; each of the two other
\* sinks is started if it is configured.
SinkStartsAlways(configured) == "inflight"
SinkStarts(configured) == IF configured THEN "inflight" ELSE "off"

\* The array handed to Promise.all is built in one go: both sinks are started
\* before any of them can have failed.
SinksStartedInTurn(cfg) ==
  [cloudwatch |-> SinkStarts(cfg.cloudwatch),
   influxdb |-> IF cfg.cloudwatch THEN "off" ELSE SinkStarts(cfg.influxdb)]
SinksStarted(cfg) ==
  [cloudwatch |-> SinkStarts(cfg.cloudwatch), influxdb |-> SinkStarts(cfg.influxdb)]

\* The Promise.all of shipMetrics after a sink moved to c or i; when it
\* settles, so does main's chain.
ShipSettled(c, i, err) ==
  LET now == PromiseAll(shipPc, {"fulfilled", SinkStatus(c), SinkStatus(i)})
  IN /\ shipPc' = now
     /\ IF shipPc = "pending" /\ now = "rejected" THEN Finish(err)
        ELSE IF shipPc = "pending" /\ now = "fulfilled" THEN Finish(NoError)
        ELSE UNCHANGED <<mainRes, cbArgs>>

\* proc.on('exit', ...): PLAN exits with code, having written stdout.  Code 1
\* throws; otherwise the output is parsed and the record is handed to
\* shipMetrics.
PlanExit(code, stdout) ==
  /\ planPc = "running"
  /\ planExit' = <<code>>
  /\ Exited(code)
  /\ IF PlanThrows(code)
     THEN /\ planPc' = "failed"
          /\ Finish("plan:exit")
          /\ UNCHANGED <<metrics, shipVars>>
     ELSE /\ planPc' = "done"
          /\ metrics' = PlanMetrics(code, stdout)
          /\ consoleOut' = consoleOut + 1
          /\ cwPc' = SinksStarted(config).cloudwatch
          /\ influxPc' = SinksStarted(config).influxdb
          /\ LET now == PromiseAll("pending", {"fulfilled", SinkStatus(cwPc'),
                                               SinkStatus(influxPc')})
             IN /\ shipPc' = now
                /\ IF now = "fulfilled" THEN Finish(NoError)
                   ELSE UNCHANGED <<mainRes, cbArgs>>
  /\ UNCHANGED <<diskVars, envVars, binVars, repoVars, duPc, allState, initPc,
                 firstFailure, initExit, binHist, repoHist, hits>>

PhaseNext ==
  \/ InitCheck
  \/ InitSpawnError
  \/ InitCreatesMarker
  \/ \E code \in ExitCodes : InitExit(code)
  \/ PlanSpawnError
  \/ \E code \in ExitCodes, stdout \in PlanStdouts : PlanExit(code, stdout)

\* ------------------------------------------------------------- the sinks

\* putMetricData settles.
CloudWatchSettled(ok) ==
  /\ cwPc = "inflight"
  /\ cwPc' = IF ok THEN "ok" ELSE "failed"
  /\ ShipSettled(cwPc', influxPc, "sink:cloudwatch")
  /\ UNCHANGED <<diskVars, lockVars, envVars, binVars, repoVars, duPc, allState,
                 initPc, firstFailure, planVars, consoleOut, influxPc, binHist,
                 repoHist, hits>>

\* influxSend settles.
InfluxSettled(ok) ==
  /\ influxPc = "inflight"
  /\ influxPc' = IF ok THEN "ok" ELSE "failed"
  /\ ShipSettled(cwPc, influxPc', "sink:influxdb")
  /\ UNCHANGED <<diskVars, lockVars, envVars, binVars, repoVars, duPc, allState,
                 initPc, firstFailure, planVars, consoleOut, cwPc, binHist,
                 repoHist, hits>>

ShipNext ==
  \/ \E ok \in BOOLEAN : CloudWatchSettled(ok)
  \/ \E ok \in BOOLEAN : InfluxSettled(ok)

\* -------------------------------------------------------------- the crash

\* The function's process is ended from outside (the invocation timed out,
\* the host went down) while work is in flight: what the process held in
\* memory is gone, its work and its subprocess stop where they are; the
\* scratch space and the lock stay as they are, and so does what the
\* scheduler was told.
Crash ==
  /\ ~Quiescent
  /\ mainRes' = IF mainRes.state = "pending"
                THEN [state |-> "crashed", value |-> None, logged |-> NoError]
                ELSE mainRes
  /\ binPc' = "killed" /\ version' = None /\ terraformBin' = <<>> /\ binZip' = "none"
  /\ repoPc' = "killed" /\ head' = None /\ repoPath' = <<>>
  /\ repoZip' = "none" /\ repoFolder' = <<>>
  /\ duPc' = "killed"
  /\ allState' = "killed"
  /\ initPc' = "killed" /\ planPc' = "killed" /\ initExit' = <<>> /\ planExit' = <<>>
  /\ metrics' = <<>>
  /\ shipPc' = "killed" /\ cwPc' = "killed" /\ influxPc' = "killed"
  /\ firstFailure' = NoError /\ hits' = {} /\ spawned' = {} /\ stepCalls' = NoCalls
  /\ UNCHANGED <<diskVars, lockHeld, envVars, cbArgs, consoleOut, binHist, repoHist>>

\* ------------------------------------------------------ the specifications

RunNext == BinNext \/ RepoNext \/ DuNext \/ PhaseNext \/ ShipNext

Next == Invoke \/ RunNext \/ Crash

Spec == Init /\ [][Next]_vars

\* ------------------------------------- overlapping calls of installTerraform
\* main's promise settles on the first failure while the other branches go
\* on, so the next invocation in the same process can call installTerraform
\* while the call of the invocation before is still in flight.  The two calls
\* share the scratch space and nothing else.

\* The pipeline's own state, which these calls leave alone but for binFs.
pipeRest == <<repoFs, tfMarker, lockVars, runs, config, binVars, repoVars, duPc,
              joinVars, planVars, shipVars, binHist, repoHist, hits, parserVars,
              escapeVars, runnerVars, resolveVars, sinkVars, timingVars>>

\* installTerraform(v) is called: access(bin) is pending.
OvCall(c, v) ==
  /\ ovPc[c] = "idle"
  /\ ovPc' = [ovPc EXCEPT ![c] = "access"]
  /\ ovVersion' = [ovVersion EXCEPT ![c] = v]
  /\ UNCHANGED <<ovZip, binWrites, binFs, pipeRest>>

\* The callback of access(bin): a hit resolves; a miss creates (truncates)
\* the zip file and sends the request.
OvAccess(c) ==
  LET v == ovVersion[c]
  IN /\ ovPc[c] = "access"
     /\ IF BinCached(InstallBin(v))
        THEN ovPc' = [ovPc EXCEPT ![c] = "done"] /\ UNCHANGED ovZip
        ELSE /\ ovPc' = [ovPc EXCEPT ![c] = "download"]
             /\ ovZip' = [ovZip EXCEPT ![v] = "truncated"]
     /\ UNCHANGED <<ovVersion, binWrites, binFs, pipeRest>>

\* request.on('error', reject)
OvRequestError(c) ==
  /\ ovPc[c] = "download"
  /\ ovPc' = [ovPc EXCEPT ![c] = "failed"]
  /\ UNCHANGED <<ovVersion, ovZip, binWrites, binFs, pipeRest>>

\* The response ends and the pipe closes the file, which then holds the whole
\* archive or not (the response was cut short, or the other call's stream is
\* writing the same file).
OvFileClosed(c, complete) ==
  /\ ovPc[c] = "download"
  /\ ovPc' = [ovPc EXCEPT ![c] = "unzip"]
  /\ ovZip' = [ovZip EXCEPT ![ovVersion[c]] = IF complete THEN "archive" ELSE "truncated"]
  /\ UNCHANGED <<ovVersion, binWrites, binFs, pipeRest>>

\* The response aborts without the file being closed.
OvStreamBroken(c) ==
  /\ ovPc[c] = "download"
  /\ ovPc' = [ovPc EXCEPT ![c] = "stuck"]
  /\ UNCHANGED <<ovVersion, ovZip, binWrites, binFs, pipeRest>>

\* unzip ends before it wrote anything.
OvUnzipRefused(c) ==
  /\ ovPc[c] = "unzip"
  /\ execShell(TRUE, 0, FALSE) = "reject"
  /\ ovPc' = [ovPc EXCEPT ![c] = "failed"]
  /\ UNCHANGED <<ovVersion, ovZip, binWrites, binFs, pipeRest>>

\* unzip -o zip -d out starts to write the binary, over the one that may be
\* there.
OvExtractBegin(c) ==
  LET bin == InstallBin(ovVersion[c])
  IN /\ ovPc[c] = "unzip"
     /\ ovZip[ovVersion[c]] = "archive"
     /\ ovPc' = [ovPc EXCEPT ![c] = "extracting"]
     /\ binFs' = [binFs EXCEPT ![bin] = "partial"]
     /\ binWrites' = [binWrites EXCEPT ![bin] = @ + 1]
     /\ UNCHANGED <<ovVersion, ovZip, pipeRest>>

\* unzip exits; execShell's callback settles the promise.
OvUnzipExit(c, error, stderrLength) ==
  LET bin == InstallBin(ovVersion[c])
      ok == execShell(error, stderrLength, FALSE) = "resolve"
  IN /\ ovPc[c] = "extracting"
     /\ binFs' = [binFs EXCEPT ![bin] = IF error THEN @ ELSE "full"]
     /\ ovPc' = [ovPc EXCEPT ![c] = IF ok THEN "done" ELSE "failed"]
     /\ UNCHANGED <<ovVersion, ovZip, binWrites, pipeRest>>

OverlapInit ==
  /\ PipelineInit
  /\ config = [cloudwatch |-> FALSE, influxdb |-> FALSE]
  /\ TimingIdle
  /\ OverlapIdle
  /\ ParserIdle
  /\ EscapeIdle
  /\ RunnerIdle
  /\ ResolveIdle
  /\ SinkIdle

OverlapNext ==
  \E c \in Calls :
    \/ \E v \in Versions : OvCall(c, v)
    \/ OvAccess(c)
    \/ OvRequestError(c)
    \/ \E complete \in BOOLEAN : OvFileClosed(c, complete)
    \/ OvStreamBroken(c)
    \/ OvUnzipRefused(c)
    \/ OvExtractBegin(c)
    \/ \E error \in BOOLEAN, n \in StderrLengths : OvUnzipExit(c, error, n)

OverlapSpec == OverlapInit /\ [][OverlapNext]_vars


\* ============================================================ properties

CLEAN == 0
DIRTY == 2

\* shipMetrics has been called in this invocation.
Shipped == consoleOut > 0

\* The invocation's chain ended in main's catch.
RunFailed == mainRes.state = "resolved" /\ mainRes.logged # NoError

\* C1: PLAN exit-code mapping.  Exit code 0 yields a record with status
\* clean, exit code 2 one with status changes-pending and the parsed counts,
\* and every other exit code (1, 3, a null code after a signal) fails the run
\* with nothing shipped.
C1_PlanExitCodeMapping ==
  planExit # <<>> =>
    LET code == planExit[1]
    IN /\ code = CLEAN => Shipped /\ metrics.terraformStatus = CLEAN
       /\ code = DIRTY =>
            /\ Shipped
            /\ metrics.terraformStatus = DIRTY
            /\ metrics.pendingTotal
                 = metrics.pendingAdd + metrics.pendingChange + metrics.pendingDestroy
       /\ code \notin {CLEAN, DIRTY} => ~Shipped /\ RunFailed /\ planPc = "failed"

\* C2: no partial metrics.  In an invocation in which an acquisition step,
\* INIT (any exit code but 0, or no launch) or PLAN (any exit code but 0 and
\* 2, or no launch) failed, shipMetrics is not called.
AcquisitionFailed == firstFailure # NoError
InitFailed == initPc = "failed" \/ (initExit # <<>> /\ initExit[1] # 0)
PlanFailed == planPc = "failed" \/ (planExit # <<>> /\ planExit[1] \notin {CLEAN, DIRTY})

C2_NoPartialMetrics ==
  (AcquisitionFailed \/ InitFailed \/ PlanFailed) => ~Shipped

\* C3: completion.  An invocation whose callback has not been called yet
\* always has a handler of its own still to run, so that it cannot be left
\* waiting for ever on an event that no handler of the program settles.
C3_CallbackEventuallyInvoked ==
  mainRes.state = "pending" => ENABLED RunNext

\* C4: the scheduler never receives a failure.  main()'s promise is never
\* rejected, it resolves with null, and the callback is then called, once,
\* with a null error argument, whatever the outcome of the pipeline.
C4_CallbackNull ==
  /\ mainRes.state \in {"idle", "pending", "resolved", "crashed"}
  /\ mainRes.state = "resolved" => mainRes.value = "null" /\ Len(cbArgs) = 1
  /\ \A i \in 1..Len(cbArgs) : cbArgs[i] = "null"

C4_Witness ==
  /\ cbArgs = <<"null">>
  /\ mainRes.logged = "sink:influxdb"
  /\ cwPc = "ok"

\* C5: lock freedom.  Every INIT and PLAN subprocess is started with locking
\* disabled, and the lock on the remote state is never held, a crashed
\* invocation included.
C5_LockFree ==
  /\ ~lockHeld
  /\ \A args \in spawned : ~args.lock

C5_Witness ==
  /\ mainRes.state = "crashed"
  /\ runs = 1
  /\ tfMarker[ExpectedExtractedPath("b719dc5")] = "partial"

\* C6: phase ordering.  INIT is started only after all three acquisition
\* branches fulfilled, PLAN only after INIT finished or was skipped, and the
\* two never run at the same time.
InitStarted == initPc \in {"running", "marking", "done", "failed"}
InitRunning == initPc \in {"running", "marking"}
PlanStarted == planPc \in {"running", "done", "failed"}

C7_FirstFailureWins ==
  AcquisitionFailed =>
    /\ RunFailed
    /\ mainRes.logged = firstFailure
    /\ cbArgs = <<"null">>
    /\ ~InitStarted /\ ~PlanStarted /\ spawned = {} /\ ~Shipped
    /\ ~Quiet(binPc) => ENABLED BinNext
    /\ ~Quiet(repoPc) => ENABLED RepoNext
    /\ ~Quiet(duPc) => ENABLED DuNext

\* The disk-usage step failed first; the two other branches went on to
\* download and write their cache entries after that.
C7_Witness ==
  /\ firstFailure = "du"
  /\ binPc = "done" /\ binZip = "archive"
  /\ repoPc = "done" /\ repoZip = "archive"
  /\ hits = {}

\* C8: binary provisioning is idempotent.  After installTerraform resolved
\* for a version, no later call for that version downloads or extracts, and
\* every call resolves with <scratch>/terraform_<v>_linux_amd64/terraform.
C8_InstallIdempotent ==
  /\ reinstalled = {}
  /\ binPc = "done" =>
       terraformBin = <<"/tmp", "/", "terraform_", version, "_linux_amd64", "/terraform">>
  /\ \A h \in hits : h.kind = "bin" /\ h.again => binZip = "none"

\* A second call for a version installed by an earlier invocation.
C8_Witness ==
  /\ binPc = "done"
  /\ version = "0.11.10"
  /\ installed = {"0.11.10"}
  /\ \E h \in hits : h.kind = "bin" /\ h.again /\ h.key = "0.11.10"
  /\ runs = 2

\* C9: snapshot provisioning is idempotent and snapshots are immutable.
\* After fetchRepo resolved for a commit, no later call for that commit uses
\* the network; the path a call resolves with is
\* <scratch>/repo/<repository>-<sha> and holds that commit's files; and no
\* snapshot path ever gets the files of another commit.
C9_SnapshotIdempotentImmutable ==
  /\ refetched = {}
  /\ repoPc = "done" =>
       /\ repoPath = <<"/tmp", "/repo", "/", GITHUB_REPO, "-", head>>
       /\ repoFs[repoPath].content = {head}
  /\ \A h \in hits : h.kind = "repo" /\ h.again => repoZip = "none"
  /\ \A s \in Shas :
       repoFs[<<"/tmp", "/repo", "/", GITHUB_REPO, "-", s>>].content \subseteq {s}

\* A second commit was provisioned next to the snapshot of the first one.
C9_Witness ==
  /\ repoPc = "done"
  /\ head = "7b5cbf6"
  /\ repoZip = "archive"
  /\ fetched = Shas
  /\ repoFs[ExpectedExtractedPath("b719dc5")] = [state |-> "full", content |-> {"b719dc5"}]
  /\ repoFs[ExpectedExtractedPath("7b5cbf6")] = [state |-> "full", content |-> {"7b5cbf6"}]

\* C10: a cache hit is always complete.  Whenever installTerraform or
\* fetchRepo finds its path and resolves with it without a download, the path
\* holds the fully extracted archive of that version or commit.
C10_CacheHitComplete ==
  \A h \in hits : h.state = "full" /\ h.content = {h.key}


\* ------------------------------------------------- terraformPlan on its own
\* The pipeline hands terraformPlan whatever PLAN wrote; here the handlers
\* that test the exit code and parse stdout are applied to outputs drawn from
\* the texts below.

\* Lines of stdout in one output, at most.
MaxLines == 2

DigitRuns == {<<0>>, <<2>>, <<0, 1, 0>>}

SummaryText(a, b, c) ==
  <<Text("Plan: "), Digits(a), Text(" to add, "), Digits(b), Text(" to change, "),
    Digits(c), Text(" to destroy"), Text(".")>>

EmptyText == <<>>
RefreshText == <<Text("aws_instance.web:"), Text(" Refreshing state"), Text("..."),
                 Text(" (ID: i-0a1b)")>>
ShortRefreshText == <<Text("aws_instance.web:"), Text(" Refreshing state"), Text("..")>>
NoChangesText == <<Text("No changes. Infrastructure is up-to-date.")>>
IndentedSummaryText == <<Text(" ")>> \o SummaryText(<<2>>, <<0>>, <<2>>)
UnfinishedSummaryText ==
  <<Text("Plan: "), Digits(<<2>>), Text(" to add, "), Digits(<<0>>), Text(" to change, "),
    Digits(<<2>>), Text(" to destroy")>>

ExampleSummaryText == SummaryText(<<2>>, <<0>>, <<1>>)
\* A line that both patterns match.
SummaryRefreshText ==
  SummaryText(<<2>>, <<0>>, <<0>>) \o <<Text(" Refreshing state"), Text("...")>>

PlanTexts ==
  {EmptyText, RefreshText, ShortRefreshText, NoChangesText, IndentedSummaryText,
   UnfinishedSummaryText, ExampleSummaryText, SummaryRefreshText}
    \cup {SummaryText(a, b, c) : a \in DigitRuns, b \in {<<0>>, <<2>>}, c \in {<<0>>, <<0, 1, 0>>}}

\* split never returns no line at all: an empty stdout is one empty line.
PlanOutputs == UNION {[1..n -> PlanTexts] : n \in 1..MaxLines}

pipeVars == <<diskVars, lockVars, runs, config, binVars, repoVars, duPc, joinVars,
              planVars, shipVars, binHist, repoHist, hits>>

ParserInit ==
  /\ PipelineInit
  /\ config = [cloudwatch |-> FALSE, influxdb |-> FALSE]
  /\ TimingIdle
  /\ OverlapIdle
  /\ EscapeIdle
  /\ RunnerIdle
  /\ ResolveIdle
  /\ SinkIdle
  /\ planRes \in [code : ExitCodes, stdout : PlanOutputs]
  /\ planOut = <<>>

\* execProcess has resolved: the handlers of terraformPlan run.
ParsePlan ==
  /\ planOut = <<>>
  /\ planOut' = <<TerraformPlanResult(planRes.code, planRes.stdout)>>
  /\ UNCHANGED <<planRes, pipeVars, overlapVars, escapeVars, runnerVars,
                 resolveVars, sinkVars, timingVars>>

ParserNext == ParsePlan

ParserSpec == ParserInit /\ [][ParserNext]_vars

\* ------------------------------------- the line-protocol functions on their own
\* influxEscape and influxLine applied to arguments drawn from the sets below.

\* Characters in one string, at most.
MaxLen == 3

EscapeChars == {"a", ",", "=", " ", "\"", "\\"}
EscapeStrings == UNION {[1..n -> EscapeChars] : n \in 0..MaxLen}
EscapeValues ==
  {StringValue(cs) : cs \in EscapeStrings}
    \cup {NumberValue(n) : n \in {0, 7, 42, 1500, -1}}
    \cup {BooleanValue(b) : b \in BOOLEAN}

EscapeCalls == [fn : {"influxEscape"}, input : EscapeValues, context : Contexts]

LineTags == {<<>>, <<[key |-> <<"t">>, value |-> <<"a", ",", "b">>]>>}
LineFields ==
  {<<>>}
    \cup {<<[key |-> <<"f">>, value |-> v]>> : v \in EscapeValues}
    \cup {<<[key |-> <<"f">>, value |-> v], [key |-> <<"g", " ", "h">>, value |-> NumberValue(7)]>> :
            v \in {StringValue(<<>>), StringValue(<<"a", " ">>), NumberValue(42)}}
LineCalls ==
  [fn : {"influxLine"}, measurement : {<<>>, <<"m">>, <<"m", " ", "x">>},
   tags : LineTags, fields : LineFields, timestampInMs : {0, 12}]

EscapeInit ==
  /\ PipelineInit
  /\ config = [cloudwatch |-> FALSE, influxdb |-> FALSE]
  /\ TimingIdle
  /\ OverlapIdle
  /\ ParserIdle
  /\ RunnerIdle
  /\ ResolveIdle
  /\ SinkIdle
  /\ escCall \in EscapeCalls \/ escCall \in LineCalls
  /\ escOut = <<>>

CallInfluxEscape ==
  /\ escOut = <<>>
  /\ escCall.fn = "influxEscape"
  /\ escOut' = <<influxEscape(escCall.input, escCall.context)>>
  /\ UNCHANGED <<escCall, pipeVars, overlapVars, parserVars, runnerVars, resolveVars,
                 sinkVars, timingVars>>

CallInfluxLine ==
  /\ escCall # <<>>
  /\ escOut = <<>>
  /\ escCall.fn = "influxLine"
  /\ escOut' = <<influxLine(escCall.measurement, escCall.tags, escCall.fields,
                            escCall.timestampInMs)>>
  /\ UNCHANGED <<escCall, pipeVars, overlapVars, parserVars, runnerVars, resolveVars,
                 sinkVars, timingVars>>

EscapeNext == CallInfluxEscape \/ CallInfluxLine

EscapeSpec == EscapeInit /\ [][EscapeNext]_vars

\* ------------------------------------------- the process runners on their own
\* execShell and execProcess called for a process that behaves in each of the
\* ways below.

ShellCalls ==
  [fn : {"execShell"}, code : ExitCodes, stdout : {"", "258828124", "Archive:"},
   stderrLength : StderrLengths, ignoreStderrOutput : BOOLEAN]

\* A process that cannot be launched emits 'error'; the runtime does not say
\* whether 'exit' comes as well, nor in which order.
\* The chunks a launched process writes, by the stream of each, in order.
ProcWrites == {<<>>, <<"stdout">>, <<"stderr", "stdout">>}

ProcCalls ==
  {c \in [fn : {"execProcess"}, launched : BOOLEAN, code : ExitCodes,
          writes : ProcWrites] : ~c.launched => c.writes = <<>>}

RunnerInit ==
  /\ PipelineInit
  /\ config = [cloudwatch |-> FALSE, influxdb |-> FALSE]
  /\ TimingIdle
  /\ OverlapIdle
  /\ ParserIdle
  /\ EscapeIdle
  /\ ResolveIdle
  /\ SinkIdle
  /\ runCall \in ShellCalls \/ runCall \in ProcCalls
  /\ runPromise = PendingPromise
  /\ runSeen = {}
  /\ runData = [stdout |-> <<>>, stderr |-> <<>>]
  /\ runResult = <<>>

\* The callback of exec.
ExecCallback ==
  /\ runCall.fn = "execShell"
  /\ "callback" \notin runSeen
  /\ runSeen' = runSeen \cup {"callback"}
  /\ runPromise' = execShellPromise(runCall.code, runCall.stdout, runCall.stderrLength,
                                    runCall.ignoreStderrOutput)
  /\ UNCHANGED <<runCall, runData, runResult, pipeVars, overlapVars, parserVars,
                 escapeVars, resolveVars, sinkVars, timingVars>>

\* proc.on('exit', ...)
ProcExit ==
  /\ runCall.fn = "execProcess"
  /\ "exit" \notin runSeen
  /\ runSeen' = runSeen \cup {"exit"}
  /\ runPromise' = Settle(runPromise, ExitOutcome(runCall.code), <<runCall.code>>)
  /\ runResult' = IF runPromise.state = "pending"
                  THEN <<[code |-> runCall.code, stdout |-> runData.stdout,
                          stderr |-> runData.stderr]>>
                  ELSE runResult
  /\ UNCHANGED <<runCall, runData, pipeVars, overlapVars, parserVars,
                 escapeVars, resolveVars, sinkVars, timingVars>>

\* proc.on('error', reject)
ProcError ==
  /\ runCall.fn = "execProcess"
  /\ ~runCall.launched
  /\ "error" \notin runSeen
  /\ runSeen' = runSeen \cup {"error"}
  /\ runPromise' = Settle(runPromise, "rejected", <<"Error">>)
  /\ UNCHANGED <<runCall, runData, runResult, pipeVars, overlapVars, parserVars,
                 escapeVars, resolveVars, sinkVars, timingVars>>

\* proc.stdout.on('data', ...) and proc.stderr.on('data', ...): the next
\* chunk the process wrote arrives, before the exit event or after it.
ProcData ==
  LET k == Len(runData.stdout) + Len(runData.stderr) + 1
  IN /\ runCall.fn = "execProcess"
     /\ k <= Len(runCall.writes)
     /\ runData' = [runData EXCEPT ![runCall.writes[k]] = Append(@, k)]
     /\ UNCHANGED <<runCall, runPromise, runSeen, runResult, pipeVars, overlapVars,
                    parserVars, escapeVars, resolveVars, sinkVars, timingVars>>

RunnerNext == ExecCallback \/ ProcExit \/ ProcError \/ ProcData

RunnerSpec == RunnerInit /\ [][RunnerNext]_vars

\* ------------------------------------------- the resolution steps on their own
\* getRepoHead().then(fetchRepo) and getTerraformVersion().then(installTerraform)
\* up to the paths the second functions build, for each of the responses below.

HeadResponses ==
  { [error |-> TRUE, rawData |-> NotJson],
    [error |-> FALSE, rawData |-> NotJson],
    [error |-> FALSE, rawData |-> JsonNull],
    [error |-> FALSE, rawData |-> JsonObject(<<>>, <<>>)],
    [error |-> FALSE, rawData |-> JsonObject(<<[sha |-> <<>>]>>, <<>>)] }
  \cup { [error |-> FALSE, rawData |-> JsonObject(<<[sha |-> <<s>>]>>, <<>>)] : s \in Shas }

DescriptorResponses ==
  { [error |-> TRUE, body |-> NotJson],
    [error |-> FALSE, body |-> NotJson],
    [error |-> FALSE, body |-> JsonNull],
    [error |-> FALSE, body |-> JsonObject(<<>>, <<>>)] }
  \cup { [error |-> FALSE, body |-> JsonObject(<<>>, <<v>>)] : v \in Versions }

ResolveInit ==
  /\ PipelineInit
  /\ config = [cloudwatch |-> FALSE, influxdb |-> FALSE]
  /\ TimingIdle
  /\ OverlapIdle
  /\ ParserIdle
  /\ EscapeIdle
  /\ RunnerIdle
  /\ SinkIdle
  /\ headResp \in HeadResponses
  /\ headOut = <<>> /\ headPath = <<>>
  /\ descResp \in DescriptorResponses
  /\ versionOut = <<>> /\ versionBin = <<>>

resolveRest == <<pipeVars, overlapVars, parserVars, escapeVars, runnerVars, sinkVars, timingVars>>

\* The request of getRepoHead fails or its response ends.
HeadResponse ==
  /\ headOut = <<>>
  /\ headOut' = <<getRepoHead(headResp.error, headResp.rawData)>>
  /\ UNCHANGED <<headResp, headPath, descResp, versionOut, versionBin, resolveRest>>

\* .then(fetchRepo): the path it will look for, and resolve with.
FetchRepoCalled ==
  /\ headOut # <<>> /\ headOut[1].state = "resolved"
  /\ headPath = <<>>
  /\ headPath' = ExpectedExtractedPath(headOut[1].value)
  /\ UNCHANGED <<headResp, headOut, descResp, versionOut, versionBin, resolveRest>>

\* getObject settles.
DescriptorResponse ==
  /\ versionOut = <<>>
  /\ versionOut' = <<getTerraformVersion(descResp.error, descResp.body)>>
  /\ UNCHANGED <<headResp, headOut, headPath, descResp, versionBin, resolveRest>>

\* .then(installTerraform): the path it will look for, and resolve with.
InstallTerraformCalled ==
  /\ versionOut # <<>> /\ versionOut[1].state = "resolved"
  /\ versionBin = <<>>
  /\ versionBin' = InstallBin(versionOut[1].value)
  /\ UNCHANGED <<headResp, headOut, headPath, descResp, versionOut, resolveRest>>

ResolveNext ==
  HeadResponse \/ FetchRepoCalled \/ DescriptorResponse \/ InstallTerraformCalled

ResolveSpec == ResolveInit /\ [][ResolveNext]_vars

\* ------------------------------------------- the line-protocol sink on its own
\* shipMetricsToInfluxDb for each configured measurement name and each record
\* of metrics below, with the request of influxSend answered or failing in
\* each of the ways below; and influxLine called with the arguments of LineCalls.

\* The record main hands to shipMetrics, as the fields of a line.
MetricsFields(m) ==
  <<[key |-> <<"terraformStatus">>, value |-> NumberValue(m.terraformStatus)],
    [key |-> <<"resourceCount">>, value |-> NumberValue(m.resourceCount)],
    [key |-> <<"refreshTime">>, value |-> NumberValue(1200)],
    [key |-> <<"pendingAdd">>, value |-> NumberValue(m.pendingAdd)],
    [key |-> <<"pendingChange">>, value |-> NumberValue(m.pendingChange)],
    [key |-> <<"pendingDestroy">>, value |-> NumberValue(m.pendingDestroy)],
    [key |-> <<"pendingTotal">>, value |-> NumberValue(m.pendingTotal)],
    [key |-> <<"scratchSpaceBytes">>, value |-> NumberValue(258828124)],
    [key |-> <<"totalTime">>, value |-> NumberValue(1500)]>>

\* INFLUXDB_MEASUREMENT: not set (the empty string), or a name.
Measurements == {<<>>, <<"t", "f">>, <<"t", " ", "f">>}

SinkCalls ==
  [measurement : Measurements,
   fields : {MetricsFields(PlanMetrics(code, stdout)) :
               code \in {0, 2}, stdout \in PlanStdouts}]

\* res.statusCode; 0 stands for none.
StatusCodes == {0, 199, 200, 204, 299, 300, 404, 500}

InfluxInit ==
  /\ PipelineInit
  /\ config = [cloudwatch |-> FALSE, influxdb |-> FALSE]
  /\ TimingIdle
  /\ OverlapIdle
  /\ ParserIdle
  /\ RunnerIdle
  /\ ResolveIdle
  /\ \/ escCall \in LineCalls /\ sinkCall = <<>>
     \/ escCall = <<>> /\ sinkCall \in SinkCalls
  /\ escOut = <<>>
  /\ sinkSent = <<>> /\ sinkSeen = <<>> /\ sendPromise = <<>>
  /\ sinkOut = IF sinkCall = <<>> THEN "idle" ELSE "pending"

sinkRest == <<pipeVars, overlapVars, parserVars, escapeVars, runnerVars, resolveVars,
              timingVars>>

\* The then-handler of shipMetricsToInfluxDb: influxLine builds the line, and
\* if it did not throw influxSend writes it to a request.
SinkBuildLine ==
  LET built == influxLine(sinkCall.measurement,
                          <<[key |-> <<"gitHubRepo">>, value |-> <<GITHUB_REPO>>]>>,
                          sinkCall.fields, 0)
  IN /\ sinkCall # <<>>
     /\ sinkOut = "pending" /\ sendPromise = <<>>
     /\ IF built.thrown
        THEN sinkOut' = "rejected" /\ UNCHANGED <<sinkSent, sendPromise>>
        ELSE /\ sinkSent' = Append(sinkSent, built.line)
             /\ sendPromise' = <<PendingPromise>>
             /\ UNCHANGED sinkOut
     /\ UNCHANGED <<sinkCall, sinkSeen, sinkRest>>

\* The promise of shipMetricsToInfluxDb follows that of influxSend.
SinkFollows(promise) ==
  IF promise.state = "pending" THEN "pending"
  ELSE IF promise.state = "resolved" THEN "resolved" ELSE "rejected"

\* The response callback of influxSend: the first thing the request gives.
SendResponse(statusCode) ==
  /\ sendPromise # <<>>
  /\ sinkSeen = <<>>
  /\ sinkSeen' = <<[type |-> "response", statusCode |-> statusCode]>>
  /\ sendPromise' = <<Settle(sendPromise[1],
                              IF StatusOk(statusCode) THEN "resolved" ELSE "rejected",
                              IF StatusOk(statusCode) THEN sinkSent ELSE <<"Error">>)>>
  /\ sinkOut' = SinkFollows(sendPromise'[1])
  /\ UNCHANGED <<sinkCall, sinkSent, sinkRest>>

\* req.on('error', reject): the request fails, before a response or after.
SendError ==
  /\ sendPromise # <<>>
  /\ \A i \in 1..Len(sinkSeen) : sinkSeen[i].type # "error"
  /\ sinkSeen' = Append(sinkSeen, [type |-> "error", statusCode |-> 0])
  /\ sendPromise' = <<Settle(sendPromise[1], "rejected", <<"Error">>)>>
  /\ sinkOut' = SinkFollows(sendPromise'[1])
  /\ UNCHANGED <<sinkCall, sinkSent, sinkRest>>

InfluxNext ==
  \/ CallInfluxLine
  \/ SinkBuildLine
  \/ \E statusCode \in StatusCodes : SendResponse(statusCode)
  \/ SendError

InfluxSpec == InfluxInit /\ [][InfluxNext]_vars

\* The timers.  Date.now() is read four times in an invocation: when main is
\* called, when terraformPlan is called, in the handler that parses the
\* plan's output, and in the handler that adds totalTime to the metrics.
\* The clock is bounded and, as the claim about the timers supposes, never
\* goes back.
MaxClock == 3

\* let then = Date.now() in main
MainThen(now) == now
\* const then = Date.now() in terraformPlan
PlanThenEpoch(now) == 0
PlanThen(now) == now
\* refreshTime: Date.now() - then
RefreshTime(now) == now - planThen[1]
\* totalTime: Date.now() - then
TotalTime(now) == now - mainThen[1]

TimingInit ==
  /\ PipelineInit
  /\ config = [cloudwatch |-> FALSE, influxdb |-> FALSE]
  /\ OverlapIdle
  /\ ParserIdle
  /\ EscapeIdle
  /\ RunnerIdle
  /\ ResolveIdle
  /\ SinkIdle
  /\ clock = 0
  /\ timePc = "loaded"
  /\ mainThen = <<>> /\ planThen = <<>> /\ refreshTime = <<>> /\ totalTime = <<>>

timingRest == <<pipeVars, overlapVars, parserVars, escapeVars, runnerVars, resolveVars,
                sinkVars>>

\* Time passes.
Tick ==
  /\ clock < MaxClock
  /\ clock' = clock + 1
  /\ UNCHANGED <<timePc, mainThen, planThen, refreshTime, totalTime, timingRest>>

\* The handler calls main, for the first time or again in the same process.
MainCalled ==
  /\ timePc \in {"loaded", "shipped", "failed"}
  /\ timePc' = "acquiring"
  /\ mainThen' = <<MainThen(clock)>>
  /\ planThen' = <<>> /\ refreshTime' = <<>> /\ totalTime' = <<>>
  /\ UNCHANGED <<clock, timingRest>>

\* The acquisitions and terraformInit are done and terraformPlan is called.
PlanCalled ==
  /\ timePc = "acquiring"
  /\ timePc' = "planning"
  /\ planThen' = <<PlanThen(clock)>>
  /\ UNCHANGED <<clock, mainThen, refreshTime, totalTime, timingRest>>

\* The handler of terraformPlan that parses the output returns the metrics.
PlanParsed ==
  /\ timePc = "planning"
  /\ timePc' = "parsed"
  /\ refreshTime' = <<RefreshTime(clock)>>
  /\ UNCHANGED <<clock, mainThen, planThen, totalTime, timingRest>>

\* The handler of main that adds scratchSpaceBytes and totalTime; the record
\* goes to shipMetrics.
MetricsBuilt ==
  /\ timePc = "parsed"
  /\ timePc' = "shipped"
  /\ totalTime' = <<TotalTime(clock)>>
  /\ UNCHANGED <<clock, mainThen, planThen, refreshTime, timingRest>>

\* A step before the metrics throws or rejects: main's catch logs the error
\* and no record is built.
TimedFailure ==
  /\ timePc \in {"acquiring", "planning"}
  /\ timePc' = "failed"
  /\ UNCHANGED <<clock, mainThen, planThen, refreshTime, totalTime, timingRest>>

TimingNext ==
  Tick \/ MainCalled \/ PlanCalled \/ PlanParsed \/ MetricsBuilt \/ TimedFailure

TimingSpec == TimingInit /\ [][TimingNext]_vars

\* C11: the artifact cache is append-only.  With two calls of
\* installTerraform in flight in one process, the call of an invocation that
\* ended on a first failure and the call of the next invocation, each binary
\* path is written by at most one extraction.
C11_CacheAppendOnly ==
  \A p \in BinPaths : binWrites[p] <= 1


\* The number a run of digits writes, most significant digit first.
RECURSIVE Pow10(_)
Pow10(n) == IF n = 0 THEN 1 ELSE 10 * Pow10(n - 1)

RECURSIVE DecimalSum(_, _)
DecimalSum(ds, i) ==
  IF i > Len(ds) THEN 0 ELSE ds[i] * Pow10(Len(ds) - i) + DecimalSum(ds, i + 1)

DecimalValue(ds) == DecimalSum(ds, 1)

\* The line begins like a summary line.
BeginsAsSummary(line) == Len(line) >= 1 /\ IsText(line[1], "Plan: ")
\* The line has the refresh marker.
HasRefreshMarker(line) == \E i \in 1..Len(line) : IsText(line[i], " Refreshing state")

Parsed == planOut # <<>> /\ ~planOut[1].thrown

\* C12: summary parsing.  When stdout has one summary line
\* "Plan: X to add, Y to change, Z to destroy." the record has pendingAdd = X,
\* pendingChange = Y, pendingDestroy = Z and pendingTotal = X + Y + Z.
C12_SummaryParsed ==
  Parsed =>
    \A i \in 1..Len(planRes.stdout) : \A a, b, c \in DigitRuns :
      (/\ planRes.stdout[i] = SummaryText(a, b, c)
       /\ \A j \in 1..Len(planRes.stdout) : j # i => ~BeginsAsSummary(planRes.stdout[j]))
      => LET m == planOut[1].metrics
         IN /\ m.pendingAdd = DecimalValue(a)
            /\ m.pendingChange = DecimalValue(b)
            /\ m.pendingDestroy = DecimalValue(c)
            /\ m.pendingTotal = DecimalValue(a) + DecimalValue(b) + DecimalValue(c)

C12_Witness ==
  /\ Parsed
  /\ planRes.code = DIRTY
  /\ planRes.stdout = <<RefreshText, SummaryText(<<0, 1, 0>>, <<2>>, <<0, 1, 0>>)>>
  /\ planOut[1].metrics.pendingTotal = 22

\* C13: defensive parsing.  For a stdout with no line that has the refresh
\* marker and no line that begins as a summary line, the empty stdout
\* included, and exit code 0 or 2, terraformPlan does not throw and the
\* record has resourceCount and every pending count at 0.
C13_DefensiveParsing ==
  (/\ planOut # <<>>
   /\ planRes.code \in {CLEAN, DIRTY}
   /\ \A i \in 1..Len(planRes.stdout) :
        ~HasRefreshMarker(planRes.stdout[i]) /\ ~BeginsAsSummary(planRes.stdout[i]))
  => /\ ~planOut[1].thrown
     /\ LET m == planOut[1].metrics
        IN /\ m.resourceCount = 0
           /\ m.pendingAdd = 0 /\ m.pendingChange = 0 /\ m.pendingDestroy = 0
           /\ m.pendingTotal = 0
           /\ m.terraformStatus = planRes.code

C13_Witness ==
  /\ Parsed
  /\ planRes = [code |-> DIRTY, stdout |-> <<EmptyText>>]
  /\ planOut[1].metrics.pendingTotal = 0


\* shipMetrics was called and the process is still there.
Dispatching == shipPc \in {"pending", "fulfilled", "rejected"}
Attempted(pc) == pc \in {"inflight", "ok", "failed"}

\* C14: sink isolation.  In every dispatch the console report is made and
\* each configured sink is attempted, whatever happens to the other one; a
\* sink in flight when the other one fails stays in flight and can still
\* succeed.
C14_SinkIsolation ==
  Dispatching =>
    /\ consoleOut = 1
    /\ config.cloudwatch => Attempted(cwPc)
    /\ config.influxdb => Attempted(influxPc)
    /\ cwPc = "failed" /\ influxPc = "inflight" => ENABLED InfluxSettled(TRUE)
    /\ influxPc = "failed" /\ cwPc = "inflight" => ENABLED CloudWatchSettled(TRUE)

\* CloudWatch has failed and the run is over; the InfluxDB write is still on
\* its way.
C14_Witness ==
  /\ Dispatching
  /\ cwPc = "failed"
  /\ influxPc = "inflight"
  /\ mainRes.state = "resolved"

\* C15: a sink failure marks the run failed.  As soon as a sink has failed,
\* main has logged an ERROR, that of the sink that failed first, whatever
\* the other sink does.
C15_SinkFailureFailsRun ==
  Dispatching /\ (cwPc = "failed" \/ influxPc = "failed") =>
    /\ RunFailed
    /\ shipPc = "rejected"
    /\ mainRes.logged \in {"sink:cloudwatch", "sink:influxdb"}
    /\ mainRes.logged = "sink:cloudwatch" => cwPc = "failed"
    /\ mainRes.logged = "sink:influxdb" => influxPc = "failed"

C15_Witness ==
  /\ Dispatching
  /\ cwPc = "failed"
  /\ influxPc = "ok"
  /\ mainRes.logged = "sink:cloudwatch"

\* C16: sink enablement.  On every dispatch the console report is made, the
\* CloudWatch sink is attempted if and only if a namespace is configured, the
\* InfluxDB sink if and only if a URL is configured; outside a dispatch no
\* sink is attempted.
C16_SinkEnablement ==
  /\ Dispatching =>
       /\ consoleOut = 1
       /\ Attempted(cwPc) <=> config.cloudwatch
       /\ Attempted(influxPc) <=> config.influxdb
  /\ ~Dispatching => ~Attempted(cwPc) /\ ~Attempted(influxPc)

C16_Witness ==
  /\ shipPc = "fulfilled"
  /\ config = [cloudwatch |-> TRUE, influxdb |-> FALSE]
  /\ cwPc = "ok"
  /\ influxPc = "off"
  /\ consoleOut = 1


\* What a reader of the line protocol does with a tag value: a backslash
\* before a comma, an equals sign or a space stands for that character.
TagSpecials == {",", "=", " "}

RECURSIVE TagUnescape(_)
TagUnescape(cs) ==
  IF cs = <<>> THEN <<>>
  ELSE IF Head(cs) = "\\" /\ Len(cs) >= 2 /\ cs[2] \in TagSpecials
  THEN <<cs[2]>> \o TagUnescape(SubSeq(cs, 3, Len(cs)))
  ELSE <<Head(cs)>> \o TagUnescape(Tail(cs))

RECURSIVE PrefixSpecials(_)
PrefixSpecials(cs) ==
  IF cs = <<>> THEN <<>>
  ELSE (IF Head(cs) \in TagSpecials THEN <<"\\", Head(cs)>> ELSE <<Head(cs)>>)
         \o PrefixSpecials(Tail(cs))

EscapedTagValue ==
  /\ escOut # <<>>
  /\ escCall.fn = "influxEscape"
  /\ escCall.context = "TAG_VALUE"
  /\ escCall.input.type = "string"
  /\ \A i \in 1..Len(escCall.input.chars) :
       escCall.input.chars[i] \in {"a"} \cup TagSpecials

\* C17: tag-value escaping round-trips.  For a tag value made of ordinary
\* characters, commas, equals signs and spaces, influxEscape in the TAG_VALUE
\* context puts a backslash before each comma, equals sign and space, and
\* taking those escapes away gives the value back.
C17_TagValueRoundTrip ==
  EscapedTagValue =>
    /\ escOut[1] = PrefixSpecials(escCall.input.chars)
    /\ TagUnescape(escOut[1]) = escCall.input.chars

C17_Witness ==
  /\ EscapedTagValue
  /\ escCall.input.chars = <<",", "=", " ">>
  /\ escOut[1] = <<"\\", ",", "\\", "=", "\\", " ">>


\* What a reader of the line protocol makes of a line: it skips the
\* measurement and the tags up to the first space that is not escaped, then
\* reads key=value pairs separated by commas.  A value that begins with a
\* double quote is a string up to the next double quote that is not escaped
\* (in it, a backslash before a double quote or a backslash stands for that
\* character); any other value is a boolean or a number.
ReadError == [ok |-> FALSE, fields |-> <<>>]

RECURSIVE SkipToFields(_, _)
SkipToFields(cs, i) ==
  IF i > Len(cs) THEN 0
  ELSE IF cs[i] = "\\" THEN SkipToFields(cs, i + 2)
  ELSE IF cs[i] = " " THEN i + 1
  ELSE SkipToFields(cs, i + 1)

RECURSIVE ReadKey(_, _, _)
ReadKey(cs, i, acc) ==
  IF i > Len(cs) THEN [ok |-> FALSE, key |-> acc, next |-> i]
  ELSE IF cs[i] = "\\" /\ i < Len(cs) /\ cs[i + 1] \in TagSpecials
  THEN ReadKey(cs, i + 2, Append(acc, cs[i + 1]))
  ELSE IF cs[i] = "=" THEN [ok |-> TRUE, key |-> acc, next |-> i + 1]
  ELSE IF cs[i] \in {",", " "} THEN [ok |-> FALSE, key |-> acc, next |-> i]
  ELSE ReadKey(cs, i + 1, Append(acc, cs[i]))

RECURSIVE ReadQuoted(_, _, _)
ReadQuoted(cs, i, acc) ==
  IF i > Len(cs) THEN [ok |-> FALSE, value |-> StringValue(acc), next |-> i]
  ELSE IF cs[i] = "\\" /\ i < Len(cs) /\ cs[i + 1] \in {"\"", "\\"}
  THEN ReadQuoted(cs, i + 2, Append(acc, cs[i + 1]))
  ELSE IF cs[i] = "\"" THEN [ok |-> TRUE, value |-> StringValue(acc), next |-> i + 1]
  ELSE ReadQuoted(cs, i + 1, Append(acc, cs[i]))

RECURSIVE BareEnd(_, _)
BareEnd(cs, i) == IF i > Len(cs) \/ cs[i] \in {",", " "} THEN i ELSE BareEnd(cs, i + 1)

IsDigitChar(c) == \E d \in 0..9 : DigitChar(d) = c
DigitOf(c) == CHOOSE d \in 0..9 : DigitChar(d) = c

RECURSIVE CharsNumber(_)
CharsNumber(cs) ==
  IF cs = <<>> THEN 0
  ELSE 10 * CharsNumber(SubSeq(cs, 1, Len(cs) - 1)) + DigitOf(cs[Len(cs)])

ReadBare(cs, i) ==
  LET j == BareEnd(cs, i)
      token == SubSeq(cs, i, j - 1)
      digits == IF token # <<>> /\ Head(token) = "-" THEN Tail(token) ELSE token
  IN IF token = <<"t", "r", "u", "e">>
     THEN [ok |-> TRUE, value |-> BooleanValue(TRUE), next |-> j]
     ELSE IF token = <<"f", "a", "l", "s", "e">>
     THEN [ok |-> TRUE, value |-> BooleanValue(FALSE), next |-> j]
     ELSE IF digits # <<>> /\ \A k \in 1..Len(digits) : IsDigitChar(digits[k])
     THEN [ok |-> TRUE,
           value |-> NumberValue(IF digits = token THEN CharsNumber(digits)
                                 ELSE 0 - CharsNumber(digits)),
           next |-> j]
     ELSE [ok |-> FALSE, value |-> StringValue(token), next |-> j]

RECURSIVE ReadFields(_, _, _)
ReadFields(cs, i, acc) ==
  LET k == ReadKey(cs, i, <<>>)
      v == IF k.next <= Len(cs) /\ cs[k.next] = "\""
           THEN ReadQuoted(cs, k.next + 1, <<>>) ELSE ReadBare(cs, k.next)
      got == Append(acc, [key |-> k.key, value |-> v.value])
  IN IF ~k.ok \/ ~v.ok THEN ReadError
     ELSE IF v.next > Len(cs) \/ cs[v.next] = " " THEN [ok |-> TRUE, fields |-> got]
     ELSE IF cs[v.next] = "," THEN ReadFields(cs, v.next + 1, got)
     ELSE ReadError

ReadLine(cs) ==
  LET i == SkipToFields(cs, 1) IN IF i = 0 THEN ReadError ELSE ReadFields(cs, i, <<>>)

\* C18: field-value round trip.  For every record, the line influxLine
\* makes of it is read back by a reader of the line protocol with the same
\* fields: numbers and booleans unquoted and equal, strings quoted with
\* their double quotes escaped and equal.
C18_FieldRoundTrip ==
  (escOut # <<>> /\ escCall.fn = "influxLine" /\ ~escOut[1].thrown) =>
    /\ ReadLine(escOut[1].line).ok
    /\ ReadLine(escOut[1].line).fields = escCall.fields


\* C19: the strict runner.  Once the callback of exec has run, the promise
\* of execShell is rejected whenever the process did not exit with 0 or wrote
\* to stderr (unless ignoreStderrOutput is set); it is resolved, with stdout,
\* only when the process exited with 0 and stderr was empty or ignored; and
\* it was settled once: the resolve call that follows a reject changes nothing.
C19_StrictRunner ==
  (runCall # <<>> /\ runCall.fn = "execShell" /\ "callback" \in runSeen) =>
    LET failed == runCall.code # 0
                    \/ (runCall.stderrLength > 0 /\ ~runCall.ignoreStderrOutput)
    IN /\ failed => runPromise.state = "rejected"
       /\ ~failed => runPromise.state = "resolved" /\ runPromise.value = <<runCall.stdout>>
       /\ runPromise.settles = 1
       /\ (execShell(ExecError(runCall.code), runCall.stderrLength,
                     runCall.ignoreStderrOutput) = "resolve")
            <=> runPromise.state = "resolved"

\* The process exited with 3 and wrote to stderr: reject, reject, resolve.
C19_Witness ==
  /\ runCall # <<>> /\ runCall.fn = "execShell"
  /\ runCall.code = 3 /\ runCall.stderrLength = 12 /\ ~runCall.ignoreStderrOutput
  /\ runPromise.state = "rejected"
  /\ runPromise.settles = 1

\* C20: the non-strict runner.  The promise of execProcess is rejected only
\* for a process that could not be launched; the exit event resolves it with
\* the exit code, whatever the code; and it is settled at most once, in
\* whatever order the exit and error events come.
C20_NonStrictRunner ==
  (runCall # <<>> /\ runCall.fn = "execProcess") =>
    /\ runPromise.settles <= 1
    /\ runPromise.state = "rejected" => ~runCall.launched /\ "error" \in runSeen
    /\ runPromise.state = "resolved" => runPromise.value = <<runCall.code>>
    /\ runCall.launched /\ "exit" \in runSeen => runPromise.state = "resolved"
    /\ runSeen # {} => runPromise.settles = 1

\* A process that was launched and exited with 3.
C20_Witness ==
  /\ runCall # <<>> /\ runCall.fn = "execProcess"
  /\ runCall.launched /\ runCall.code = 3
  /\ runPromise = [state |-> "resolved", value |-> <<3>>, settles |-> 1]


\* C21: INIT failure.  Whenever INIT has ended with anything but exit code 0
\* (another code, or no code after a signal), the invocation has failed with
\* the INIT error logged, PLAN has not been started in it and shipMetrics has
\* not been called.
C21_InitFailure ==
  (initExit # <<>> /\ initExit[1] # 0) =>
    /\ initPc = "failed"
    /\ RunFailed /\ mainRes.logged = "init:exit"
    /\ ~PlanStarted
    /\ TerraformPlanArgs \notin spawned
    /\ ~Shipped


\* C22: head resolution validates its response.  getRepoHead rejects for a
\* response that is not JSON, that has no commit object, or whose commit
\* object has no sha; what it resolves with is a commit identifier, and so
\* is what fetchRepo builds the snapshot path from.
HeadResponseValid ==
  /\ ~headResp.error /\ headResp.rawData.parsable /\ ~headResp.rawData.null
  /\ headResp.rawData.commit # <<>>
  /\ headResp.rawData.commit[1].sha # <<>>

C22_HeadValidated ==
  (headResp # <<>> /\ headOut # <<>>) =>
    /\ ~HeadResponseValid => headOut[1].state = "rejected"
    /\ headOut[1].state = "resolved" => headOut[1].value \in Shas
    /\ headPath # <<>> => headPath \in RepoPaths

\* C23: version resolution validates the descriptor.  getTerraformVersion
\* rejects for a descriptor that is not JSON or has no terraform_version;
\* what it resolves with is a version, and so is what installTerraform builds
\* the path of the binary from.
DescriptorValid ==
  /\ ~descResp.error /\ descResp.body.parsable /\ ~descResp.body.null
  /\ descResp.body.terraform_version # <<>>

C23_VersionValidated ==
  (descResp # <<>> /\ versionOut # <<>>) =>
    /\ ~DescriptorValid => versionOut[1].state = "rejected"
    /\ versionOut[1].state = "resolved" => versionOut[1].value \in Versions
    /\ versionBin # <<>> => versionBin \in BinPaths


\* C24: snapshot verification.  fetchRepo resolves with the expected path
\* <scratch>/repo/<repository>-<sha>, and only if the path is there; on a
\* cache miss it has then downloaded an archive that unpacked to that very
\* folder.  A first response without a location header makes it fail, and so
\* does an expected path that is not there after the extraction.
C24_SnapshotVerified ==
  /\ [](repoPc = "done" =>
         /\ repoPath = <<"/tmp", "/repo", "/", GITHUB_REPO, "-", head>>
         /\ repoFs[repoPath].state # "absent"
         /\ repoZip # "none" => repoZip = "archive" /\ repoFolder = repoPath)
  /\ [][FetchRedirect(FALSE) => repoPc' = "failed" /\ repoPath' = <<>>]_vars
  /\ [][(/\ repoPc = "verify"
         /\ repoFs[ExpectedExtractedPath(head)].state = "absent"
         /\ repoPc' # "verify")
        => repoPc' \in {"failed", "killed"} /\ repoPath' = <<>>]_vars

\* The archive unpacked to a folder of another name: the expected path is
\* not there and fetchRepo failed.
C24_Witness ==
  /\ repoPc = "failed"
  /\ firstFailure = "repo"
  /\ repoZip = "archive"
  /\ repoFolder = ArchiveFolder(head, FALSE)
  /\ repoFs[ExpectedExtractedPath(head)].state = "absent"
  /\ repoFs[ExpectedExtractedPath("b719dc5")].state = "full"
  /\ head = "7b5cbf6"


\* C25: the INIT skip is sound across runs.  INIT is skipped only when the
\* .terraform marker is in the snapshot, and PLAN is started only against a
\* snapshot whose .terraform folder an INIT has completed, whatever the
\* invocations before did.
C25_InitSkipSound ==
  /\ initPc = "skipped" => tfMarker[repoPath] # "absent"
  /\ PlanStarted => tfMarker[repoPath] = "complete"


\* The lines of stdout the summary pattern matches.
SummaryMatches == {i \in 1..Len(planRes.stdout) : PlanMatch(planRes.stdout[i]) # <<>>}

\* C26: the first summary line wins.  When more than one line of stdout
\* matches the summary pattern, pendingAdd, pendingChange and pendingDestroy
\* are the numbers of the first of them.
C26_FirstSummaryWins ==
  (Parsed /\ Cardinality(SummaryMatches) > 1) =>
    LET first == CHOOSE i \in SummaryMatches : \A j \in SummaryMatches : i <= j
        groups == PlanMatch(planRes.stdout[first])
        m == planOut[1].metrics
    IN /\ m.pendingAdd = DecimalValue(groups[1])
       /\ m.pendingChange = DecimalValue(groups[2])
       /\ m.pendingDestroy = DecimalValue(groups[3])

\* The state-refresh marker in a line: " Refreshing state" with three more
\* characters after it.
RECURSIVE CharsAfter(_, _)
CharsAfter(line, i) ==
  IF i >= Len(line) THEN 0 ELSE Width(line[i + 1]) + CharsAfter(line, i + 1)

ContainsRefreshMarker(line) ==
  \E i \in 1..Len(line) :
    line[i].kind = "text" /\ line[i].text = " Refreshing state" /\ CharsAfter(line, i) >= 3

\* C27: refresh counting.  resourceCount is the number of lines of stdout
\* that contain the state-refresh marker, whatever the order of the lines and
\* wherever the summary lines are; one refresh line and
\* "Plan: 2 to add, 0 to change, 1 to destroy." at exit code 2 give
\* resourceCount 1, pendingAdd 2, pendingChange 0, pendingDestroy 1,
\* pendingTotal 3 and status 2.
C27_RefreshCounting ==
  Parsed =>
    LET m == planOut[1].metrics
    IN /\ m.resourceCount
            = Cardinality({i \in 1..Len(planRes.stdout) :
                             ContainsRefreshMarker(planRes.stdout[i])})
       /\ (planRes.code = DIRTY
            /\ planRes.stdout \in {<<RefreshText, ExampleSummaryText>>,
                                    <<ExampleSummaryText, RefreshText>>})
          => m = [terraformStatus |-> DIRTY, resourceCount |-> 1, pendingAdd |-> 2,
                  pendingChange |-> 0, pendingDestroy |-> 1, pendingTotal |-> 3]

C27_Witness ==
  /\ planRes = [code |-> DIRTY, stdout |-> <<RefreshText, ExampleSummaryText>>]
  /\ planOut # <<>>
  /\ planOut[1].metrics.resourceCount = 1
  /\ planOut[1].metrics.pendingTotal = 3


\* C28: no retries.  In one invocation installTerraform and fetchRepo are
\* called at most once each and INIT and PLAN are spawned at most once each;
\* after a step failed nothing of it or after it is started; and with the
\* acquisition and INIT through, PLAN has been spawned exactly once.
C28_NoRetries ==
  /\ \A step \in Steps : stepCalls[step] <= 1
  /\ AcquisitionFailed => stepCalls["init"] = 0 /\ stepCalls["plan"] = 0
  /\ binPc = "failed" => ~ENABLED InstallAccess
  /\ repoPc = "failed" => ~ENABLED FetchAccess
  /\ initPc = "failed" => stepCalls["plan"] = 0 /\ ~ENABLED InitCheck
  /\ planPc = "failed" => stepCalls["plan"] = 1 /\ ~ENABLED PhaseNext
  /\ initPc \in {"done", "skipped"} => stepCalls["plan"] = 1

\* INIT failed in the second invocation, after both provisioning steps took
\* what the first one had cached: every step was called once, PLAN not at all.
C28_Witness ==
  /\ runs = 2
  /\ initPc = "failed"
  /\ initExit = <<1>>
  /\ stepCalls = [install |-> 1, fetch |-> 1, init |-> 1, plan |-> 0]
  /\ mainRes.logged = "init:exit"


\* The first thing the request gave is a response with a status in 200..299.
Accepted ==
  /\ sinkSeen # <<>>
  /\ sinkSeen[1].type = "response"
  /\ sinkSeen[1].statusCode \in 200..299

\* C29: outcome of the line-protocol write.  influxSend succeeds exactly when
\* the response has a status in 200..299; a response with any other status
\* and a request that fails make it, and the sink, fail; and its promise is
\* settled once.
C29_WriteOutcome ==
  sendPromise # <<>> =>
    /\ sendPromise[1].state = "resolved" <=> Accepted
    /\ sendPromise[1].state = "rejected" <=> (sinkSeen # <<>> /\ ~Accepted)
    /\ sendPromise[1].state = "resolved" => sendPromise[1].value = sinkSent
    /\ sendPromise[1].settles <= 1
    /\ sinkSeen # <<>> => sendPromise[1].settles = 1
    /\ sinkOut = "resolved" <=> Accepted
    /\ sinkOut = "rejected" <=> (sinkSeen # <<>> /\ ~Accepted)

\* Status 199 is answered, and the request fails after that.
C29_Witness ==
  /\ sendPromise # <<>>
  /\ sinkSeen = <<[type |-> "response", statusCode |-> 199],
                  [type |-> "error", statusCode |-> 0]>>
  /\ sendPromise[1].state = "rejected"
  /\ sendPromise[1].settles = 1
  /\ sinkOut = "rejected"

\* C30: the preconditions of the line protocol are enforced where the line
\* is built.  influxLine throws for an empty measurement name and for no
\* fields, and gives a line otherwise; the sink writes nothing but one line
\* with a measurement name and the fields, and with no measurement name
\* configured it fails without writing.
C30_LinePreconditions ==
  /\ (escOut # <<>> /\ escCall.fn = "influxLine") =>
       /\ escOut[1].thrown <=> (escCall.measurement = <<>> \/ escCall.fields = <<>>)
       /\ ~escOut[1].thrown => escOut[1].line # <<>>
  /\ sinkCall # <<>> =>
       /\ sinkSent # <<>> =>
            /\ sinkCall.measurement # <<>> /\ sinkCall.fields # <<>>
            /\ Len(sinkSent) = 1
            /\ SubSeq(sinkSent[1], 1, 1) = <<"t">>
       /\ (sinkCall.measurement = <<>> /\ sinkOut # "pending") =>
            sinkOut = "rejected" /\ sinkSent = <<>> /\ sendPromise = <<>>
       /\ sinkCall.measurement = <<>> => sinkOut \in {"pending", "rejected"}

\* No measurement name is configured: the sink has failed and nothing was
\* written.
C30_Witness ==
  /\ sinkCall # <<>>
  /\ sinkCall.measurement = <<>>
  /\ sinkOut = "rejected"
  /\ sinkSent = <<>>


\* C32: completion waits for the sinks.  Once the handler's callback has
\* been called, no sink write started in the invocation is still in flight,
\* also when the other sink failed first.
C32_CompletionWaitsForSinks ==
  (mainRes.state = "resolved" /\ cbArgs # <<>>) =>
    cwPc # "inflight" /\ influxPc # "inflight"


\* What the tool does not write: a summary line that announces changes when
\* it exits with 0; "No changes" or a summary line of no changes when it
\* exits with 2.
AnnouncesChanges(line) ==
  LET groups == PlanMatch(line)
  IN groups # <<>>
       /\ DecimalValue(groups[1]) + DecimalValue(groups[2]) + DecimalValue(groups[3]) > 0

ToolOutput ==
  /\ planRes.code = CLEAN =>
       \A i \in 1..Len(planRes.stdout) : ~AnnouncesChanges(planRes.stdout[i])
  /\ planRes.code = DIRTY =>
       \A i \in 1..Len(planRes.stdout) :
         /\ planRes.stdout[i] # NoChangesText
         /\ PlanMatch(planRes.stdout[i]) # <<>> => AnnouncesChanges(planRes.stdout[i])

\* C33: status and counts agree.  For every stdout the tool can write, one
\* without a summary line included, the record of exit code 0 has
\* pendingTotal = 0 and the record of exit code 2 has pendingTotal > 0.
C33_StatusCountsAgree ==
  (Parsed /\ ToolOutput) =>
    LET m == planOut[1].metrics
    IN /\ m.terraformStatus = CLEAN => m.pendingTotal = 0
       /\ m.terraformStatus = DIRTY => m.pendingTotal > 0


\* What a reader makes of an escaped string outside quotes: a backslash
\* before one of the special characters of the context stands for that
\* character.
RECURSIVE Unescape(_, _)
Unescape(cs, specials) ==
  IF cs = <<>> THEN <<>>
  ELSE IF Head(cs) = "\\" /\ Len(cs) >= 2 /\ cs[2] \in specials
  THEN <<cs[2]>> \o Unescape(SubSeq(cs, 3, Len(cs)), specials)
  ELSE <<Head(cs)>> \o Unescape(Tail(cs), specials)

\* The string a reader gets back from the escaped form out of a context.
Decoded(out, context) ==
  CASE context = "MEASUREMENT" -> [ok |-> TRUE, chars |-> Unescape(out, {",", " "})]
    [] context \in {"TAG_KEY", "TAG_VALUE", "FIELD_KEY"} ->
         [ok |-> TRUE, chars |-> Unescape(out, TagSpecials)]
    [] context = "FIELD_VALUE" ->
         LET q == ReadQuoted(out, 2, <<>>)
         IN [ok |-> out # <<>> /\ Head(out) = "\"" /\ q.ok /\ q.next = Len(out) + 1,
             chars |-> q.value.chars]

\* C34: escaping is lossless for every string.  In every context the reader
\* recovers the string influxEscape was given, backslashes included, and no
\* other string has the same escaped form.
C34_EscapeLossless ==
  (escOut # <<>> /\ escCall.fn = "influxEscape" /\ escCall.input.type = "string") =>
    /\ Decoded(escOut[1], escCall.context).ok
    /\ Decoded(escOut[1], escCall.context).chars = escCall.input.chars
    /\ \A other \in EscapeStrings :
         other # escCall.input.chars =>
           influxEscape(StringValue(other), escCall.context) # escOut[1]


\* The chunks the process wrote to a stream.
Written(stream) ==
  {k \in 1..Len(runCall.writes) : runCall.writes[k] = stream}
ChunksOf(string) == {string[i] : i \in 1..Len(string)}

\* C31: the captured output is complete.  The object execProcess resolves
\* with holds, in stdout and in stderr, every chunk the process wrote,
\* whatever the order of the data events and the exit event.
C31_CapturedOutputComplete ==
  (runCall # <<>> /\ runCall.fn = "execProcess" /\ runResult # <<>>) =>
    /\ ChunksOf(runResult[1].stdout) = Written("stdout")
    /\ ChunksOf(runResult[1].stderr) = Written("stderr")


\* C35: the timing metrics are ordered.  With a clock that never goes back,
\* every record handed to shipMetrics has 0 <= refreshTime <= totalTime.
C35_TimingOrdered ==
  timePc = "shipped" =>
    /\ 0 <= refreshTime[1]
    /\ refreshTime[1] <= totalTime[1]

\* The plan timer starts after the total timer and stops before it: main is
\* called at 1, terraformPlan at 2, the output is parsed at 3.
C35_Witness ==
  /\ timePc = "shipped"
  /\ mainThen = <<1>> /\ planThen = <<2>>
  /\ refreshTime = <<1>> /\ totalTime = <<2>>

====
